---- MODULE Spec2Model ----
(***************************************************************************)
(* Model of SelectionService (selectionService.js of fast-copy): the       *)
(* selection filter, the anchor/orientation resolver, the overlay bounds   *)
(* calculator, the modifier double-tap detector and the start/stop/quit    *)
(* lifecycle with its overlay window.                                      *)
(*                                                                         *)
(* Conventions.  A string is a sequence of one-character strings, so that  *)
(* toLowerCase, trim and includes are computed.  zoomFactor is kept in     *)
(* halves (zoomFactor = 2 stands for the JavaScript value 1, 3 for 1.5),   *)
(* which keeps 12 * zoom and 12 * zoom / 3 integral.  Inside                *)
(* getToolbarBounds the tentative x and y are kept doubled, because        *)
(* width / 2 may be a half pixel before Math.round.                        *)
(***************************************************************************)
EXTENDS Integers, Sequences, FiniteSets, TLC

VARIABLES
    available,              \* this.available
    selectionHook,          \* this.selectionHook: NoHook or the hook object
    toolbarWindow,          \* this.toolbarWindow: NoWindow or the BrowserWindow
    toolbarSize,            \* this.toolbarSize
    started,                \* this.started
    zoomFactor,             \* this.zoomFactor, in halves
    blacklist,              \* this.blacklist
    filterMode,             \* this.filterMode
    filterList,             \* this.filterList
    triggerMode,            \* this.triggerMode
    lastSelectionText,      \* this.lastSelectionText
    hideListenersAttached,  \* this.hideListenersAttached
    lastCtrlKeyDownAt,      \* this.lastCtrlKeyDownAt
    now,                    \* Date.now() as last read
    cmds,                   \* what the last step did to the overlay, in order
    arg,                    \* input of the function under test (function specifications)
    ret                     \* its result

vars == <<available, selectionHook, toolbarWindow, toolbarSize, started, zoomFactor,
          blacklist, filterMode, filterList, triggerMode, lastSelectionText,
          hideListenersAttached, lastCtrlKeyDownAt, now, cmds, arg, ret>>

configVars == <<blacklist, filterMode, filterList, triggerMode, zoomFactor>>

(***************************************************************************)
(* Bounds of the model.                                                    *)
(***************************************************************************)
MaxNameLen == 2
MaxListLen == 2
MaxListeners == 2
MaxPending == 2
MaxClock == 401

(***************************************************************************)
(* Program constants.                                                      *)
(***************************************************************************)
POSITION_PADDING == 12
TOOLBAR_DEFAULT_WIDTH == 180
TOOLBAR_DEFAULT_HEIGHT == 48
DragThreshold == 14
DoubleTapGap == 350

TriggerMode == [SELECTED |-> "selected", CTRL_KEY |-> "ctrlkey", SHORTCUT |-> "shortcut"]

PositionLevel == [NONE |-> "NONE", MOUSE_SINGLE |-> "MOUSE_SINGLE", MOUSE_DUAL |-> "MOUSE_DUAL",
                  SEL_FULL |-> "SEL_FULL", SEL_DETAILED |-> "SEL_DETAILED"]

(***************************************************************************)
(* Strings.                                                                *)
(***************************************************************************)
LowerOf == [c \in {"a", "b", "A", "B", "h", "w", " "} |->
              IF c = "A" THEN "a" ELSE IF c = "B" THEN "b" ELSE c]

toLowerCase(s) == [i \in 1..Len(s) |-> IF s[i] \in DOMAIN LowerOf THEN LowerOf[s[i]] ELSE s[i]]

\* String.prototype.includes: sub occurs in s at some offset (the empty string always does).
includes(s, sub) ==
    \E i \in 0..(Len(s) - Len(sub)) : SubSeq(s, i + 1, i + Len(sub)) = sub

RECURSIVE trimStart(_)
trimStart(s) == IF s # <<>> /\ Head(s) = " " THEN trimStart(Tail(s)) ELSE s

RECURSIVE trimEnd(_)
trimEnd(s) == IF s # <<>> /\ s[Len(s)] = " " THEN trimEnd(SubSeq(s, 1, Len(s) - 1)) ELSE s

trim(s) == trimEnd(trimStart(s))

\* Strings over an alphabet, up to a length.
StringsOver(chars, n) == UNION {[1..k -> chars] : k \in 0..n}

\* array.map((item) => item.toLowerCase())
lowerAll(s) == [i \in 1..Len(s) |-> toLowerCase(s[i])]

Range(s) == {s[i] : i \in 1..Len(s)}

Max(a, b) == IF a >= b THEN a ELSE b
Min(a, b) == IF a <= b THEN a ELSE b

\* Math.round(n / d) for d > 0: floor(n / d + 1/2), halves going up.
MathRound(n, d) == (2 * n + d) \div (2 * d)

\* Math.abs
Abs(n) == IF n < 0 THEN -n ELSE n

(***************************************************************************)
(* Selection events of the hook.                                           *)
(***************************************************************************)
Absent == [absent |-> TRUE]
NullData == [null |-> TRUE]

Pt(x, y) == [x |-> x, y |-> y]

\* A selection event carrying only a mouse position.
MouseSingleEvent(text, programName, p) ==
    [text |-> text, textIsString |-> TRUE, programName |-> programName,
     posLevel |-> PositionLevel.MOUSE_SINGLE,
     mousePosStart |-> Absent, mousePosEnd |-> p,
     startTop |-> Absent, startBottom |-> Absent, endTop |-> Absent, endBottom |-> Absent]

\* What the windowing host answers while one event is handled: the pointer position
\* (screen.getCursorScreenPoint), the scale of the display, in percent, by which
\* screen.screenToDipPoint divides, and the work area of the display nearest the anchor
\* (screen.getDisplayNearestPoint).
PrimaryWorkArea == [x |-> 0, y |-> 0, width |-> 1920, height |-> 1040]

ScreenOn(cursor, scalePercent, workArea) ==
    [cursor |-> cursor, scalePercent |-> scalePercent, workArea |-> workArea]

Screen(cursor, scalePercent) == ScreenOn(cursor, scalePercent, PrimaryWorkArea)

(***************************************************************************)
(* Configuration.                                                          *)
(***************************************************************************)
\* A raw array-valued config field is [isArray, items]; a raw zoomFactor is
\* [isNumber, halves] (a missing or non-numeric value has isNumber = FALSE).
Array(items) == [isArray |-> TRUE, items |-> items]
NotArray == [isArray |-> FALSE, items |-> <<>>]
Unset == ""
Zoom(halves) == [isNumber |-> TRUE, halves |-> halves]
NoZoom == [isNumber |-> FALSE, halves |-> 0]

\* updateConfig: the five fields as stored for a raw config object.
\* Number(config.zoomFactor || 1) || 1: a missing, zero or non-numeric value gives 1.
StoredZoom(z) == IF ~z.isNumber \/ z.halves = 0 THEN 2 ELSE z.halves

StoredBlacklist(config) ==
    IF config.blacklist.isArray THEN Range(lowerAll(config.blacklist.items)) ELSE {}

StoredFilterMode(config) ==
    IF config.selectionFilterMode = Unset THEN "blacklist" ELSE config.selectionFilterMode

StoredFilterList(config) ==
    IF config.selectionFilterList.isArray
    THEN lowerAll(config.selectionFilterList.items)
    ELSE <<>>

StoredTriggerMode(config) ==
    IF config.selectionTriggerMode = Unset THEN TriggerMode.SELECTED
    ELSE config.selectionTriggerMode

updateConfig(config) ==
    /\ blacklist' = StoredBlacklist(config)
    /\ filterMode' = StoredFilterMode(config)
    /\ filterList' = StoredFilterList(config)
    /\ triggerMode' = StoredTriggerMode(config)
    /\ zoomFactor' = StoredZoom(config.zoomFactor)

(***************************************************************************)
(* Selection Event Filter.                                                 *)
(***************************************************************************)
\* Mutation: the whitelist is consulted before the built-in blacklist.
shouldProcessSelection_WhitelistFirst(selectionData) ==
    IF selectionData = NullData THEN FALSE
    ELSE LET programName == toLowerCase(selectionData.programName) IN
         IF triggerMode = TriggerMode.SELECTED
         THEN IF filterMode = "whitelist" /\ Len(filterList) > 0
              THEN \E i \in 1..Len(filterList) : includes(programName, filterList[i])
              ELSE IF programName # <<>> /\ programName \in blacklist
              THEN FALSE
              ELSE IF filterMode = "blacklist" /\ Len(filterList) > 0
              THEN ~ \E i \in 1..Len(filterList) : includes(programName, filterList[i])
              ELSE TRUE
         ELSE TRUE

\* Mutation: the whitelist requires every entry to match.
shouldProcessSelection_WhitelistEvery(selectionData) ==
    IF selectionData = NullData THEN FALSE
    ELSE LET programName == toLowerCase(selectionData.programName) IN
         IF triggerMode = TriggerMode.SELECTED
         THEN IF programName # <<>> /\ programName \in blacklist
              THEN FALSE
              ELSE IF filterMode = "whitelist" /\ Len(filterList) > 0
              THEN \A i \in 1..Len(filterList) : includes(programName, filterList[i])
              ELSE IF filterMode = "blacklist" /\ Len(filterList) > 0
              THEN ~ \E i \in 1..Len(filterList) : includes(programName, filterList[i])
              ELSE TRUE
         ELSE TRUE

\* Mutation: blacklist-mode entries are compared for equality, not as substrings.
shouldProcessSelection_ExactMatch(selectionData) ==
    IF selectionData = NullData THEN FALSE
    ELSE LET programName == toLowerCase(selectionData.programName) IN
         IF triggerMode = TriggerMode.SELECTED
         THEN IF programName # <<>> /\ programName \in blacklist
              THEN FALSE
              ELSE IF filterMode = "whitelist" /\ Len(filterList) > 0
              THEN \E i \in 1..Len(filterList) : includes(programName, filterList[i])
              ELSE IF filterMode = "blacklist" /\ Len(filterList) > 0
              THEN ~ \E i \in 1..Len(filterList) : programName = filterList[i]
              ELSE TRUE
         ELSE TRUE

\* Mutation: the rules are applied in every trigger mode.
shouldProcessSelection_AnyMode(selectionData) ==
    IF selectionData = NullData THEN FALSE
    ELSE LET programName == toLowerCase(selectionData.programName) IN
         IF programName # <<>> /\ programName \in blacklist
         THEN FALSE
         ELSE IF filterMode = "whitelist" /\ Len(filterList) > 0
         THEN \E i \in 1..Len(filterList) : includes(programName, filterList[i])
         ELSE IF filterMode = "blacklist" /\ Len(filterList) > 0
         THEN ~ \E i \in 1..Len(filterList) : includes(programName, filterList[i])
         ELSE TRUE

shouldProcessSelection(selectionData) ==
    IF selectionData = NullData THEN FALSE
    ELSE LET programName == toLowerCase(selectionData.programName) IN
         IF triggerMode = TriggerMode.SELECTED
         THEN IF programName # <<>> /\ programName \in blacklist
              THEN FALSE
              ELSE IF filterMode = "whitelist" /\ Len(filterList) > 0
              THEN \E i \in 1..Len(filterList) : includes(programName, filterList[i])
              ELSE IF filterMode = "blacklist" /\ Len(filterList) > 0
              THEN ~ \E i \in 1..Len(filterList) : includes(programName, filterList[i])
              ELSE TRUE
         ELSE TRUE

(***************************************************************************)
(* Position/Orientation Resolver.                                          *)
(***************************************************************************)
\* toDip: a missing point is the origin; otherwise screenToDipPoint, then Math.round.
toDip(point, screen) ==
    IF point = Absent THEN Pt(0, 0)
    ELSE Pt(MathRound(point.x * 100, screen.scalePercent),
            MathRound(point.y * 100, screen.scalePercent))

\* POSITION_PADDING * this.zoomFactor (zoomFactor is in halves, 12 is even).
rangePadding == (POSITION_PADDING * zoomFactor) \div 2

\* { point: null, orientation }
NoPoint == [none |-> TRUE]

Resolution(point, orientation) == [point |-> point, orientation |-> orientation]

\* case NONE, and default: below the pointer.
deriveAtCursor(screen) ==
    LET dip == toDip(screen.cursor, screen)
    IN  Resolution(Pt(dip.x, dip.y + rangePadding), "bottomMiddle")

\* case MOUSE_SINGLE
deriveMouseSingle(selectionData, screen) ==
    LET dip == toDip(selectionData.mousePosEnd, screen)
    IN  Resolution(Pt(dip.x, dip.y + rangePadding), "bottomMiddle")

\* Mutation: the vertical threshold is inclusive.
deriveMouseDual_Inclusive(selectionData, screen) ==
    LET start == toDip(selectionData.mousePosStart, screen)
        end == toDip(selectionData.mousePosEnd, screen)
        yDistance == end.y - start.y
        xDistance == end.x - start.x
    IN  IF Abs(yDistance) >= DragThreshold
        THEN IF yDistance > 0
             THEN Resolution(Pt(end.x, end.y + rangePadding), "bottomLeft")
             ELSE Resolution(Pt(end.x, end.y - rangePadding), "topRight")
        ELSE IF xDistance > 0
        THEN Resolution(Pt(end.x, end.y + rangePadding), "bottomLeft")
        ELSE Resolution(Pt(end.x, end.y + rangePadding), "bottomRight")

\* case MOUSE_DUAL
deriveMouseDual(selectionData, screen) ==
    LET start == toDip(selectionData.mousePosStart, screen)
        end == toDip(selectionData.mousePosEnd, screen)
        yDistance == end.y - start.y
        xDistance == end.x - start.x
    IN  IF Abs(yDistance) > DragThreshold
        THEN IF yDistance > 0
             THEN Resolution(Pt(end.x, end.y + rangePadding), "bottomLeft")
             ELSE Resolution(Pt(end.x, end.y - rangePadding), "topRight")
        ELSE IF xDistance > 0
        THEN Resolution(Pt(end.x, end.y + rangePadding), "bottomLeft")
        ELSE Resolution(Pt(end.x, end.y + rangePadding), "bottomRight")

\* Mutation: the double-click anchor is taken at endBottom.x.
deriveSelFull_AnchorX(selectionData, screen) ==
    LET mouseStart == toDip(selectionData.mousePosStart, screen)
        mouseEnd == toDip(selectionData.mousePosEnd, screen)
        isNoMouse == mouseStart = Pt(0, 0) /\ mouseEnd = Pt(0, 0)
        isDoubleClick == mouseStart.x = mouseEnd.x /\ mouseStart.y = mouseEnd.y
        startTop == toDip(selectionData.startTop, screen)
        startBottom == toDip(selectionData.startBottom, screen)
        endTop == toDip(selectionData.endTop, screen)
        endBottom == toDip(selectionData.endBottom, screen)
        isSameLine == startTop.y = endTop.y /\ startBottom.y = endBottom.y
        below(p) == Pt(p.x, p.y + rangePadding \div 3)
    IN  IF isNoMouse THEN Resolution(below(endBottom), "bottomLeft")
        ELSE IF isDoubleClick /\ isSameLine
        THEN Resolution(below(endBottom), "bottomMiddle")
        ELSE IF isSameLine
        THEN IF mouseEnd.x - mouseStart.x >= 0
             THEN Resolution(below(endBottom), "bottomLeft")
             ELSE Resolution(below(startBottom), "bottomRight")
        ELSE IF mouseEnd.y - mouseStart.y >= 0
        THEN Resolution(below(endBottom), "bottomLeft")
        ELSE Resolution(Pt(startTop.x, startTop.y - rangePadding \div 3), "topRight")

\* Mutation: the selection branches offset by the whole padding, not a third of it.
deriveSelFull_FullPadding(selectionData, screen) ==
    LET mouseStart == toDip(selectionData.mousePosStart, screen)
        mouseEnd == toDip(selectionData.mousePosEnd, screen)
        isNoMouse == mouseStart = Pt(0, 0) /\ mouseEnd = Pt(0, 0)
        isDoubleClick == mouseStart.x = mouseEnd.x /\ mouseStart.y = mouseEnd.y
        startTop == toDip(selectionData.startTop, screen)
        startBottom == toDip(selectionData.startBottom, screen)
        endTop == toDip(selectionData.endTop, screen)
        endBottom == toDip(selectionData.endBottom, screen)
        isSameLine == startTop.y = endTop.y /\ startBottom.y = endBottom.y
        below(p) == Pt(p.x, p.y + rangePadding)
    IN  IF isNoMouse THEN Resolution(below(endBottom), "bottomLeft")
        ELSE IF isDoubleClick /\ isSameLine
        THEN Resolution(Pt(mouseEnd.x, endBottom.y + rangePadding), "bottomMiddle")
        ELSE IF isSameLine
        THEN IF mouseEnd.x - mouseStart.x >= 0
             THEN Resolution(below(endBottom), "bottomLeft")
             ELSE Resolution(below(startBottom), "bottomRight")
        ELSE IF mouseEnd.y - mouseStart.y >= 0
        THEN Resolution(below(endBottom), "bottomLeft")
        ELSE Resolution(Pt(startTop.x, startTop.y - rangePadding), "topRight")

\* Mutation: the drag direction tests are strict.
deriveSelFull_StrictDirection(selectionData, screen) ==
    LET mouseStart == toDip(selectionData.mousePosStart, screen)
        mouseEnd == toDip(selectionData.mousePosEnd, screen)
        isNoMouse == mouseStart = Pt(0, 0) /\ mouseEnd = Pt(0, 0)
        isDoubleClick == mouseStart.x = mouseEnd.x /\ mouseStart.y = mouseEnd.y
        startTop == toDip(selectionData.startTop, screen)
        startBottom == toDip(selectionData.startBottom, screen)
        endTop == toDip(selectionData.endTop, screen)
        endBottom == toDip(selectionData.endBottom, screen)
        isSameLine == startTop.y = endTop.y /\ startBottom.y = endBottom.y
        below(p) == Pt(p.x, p.y + rangePadding \div 3)
    IN  IF isNoMouse THEN Resolution(below(endBottom), "bottomLeft")
        ELSE IF isDoubleClick /\ isSameLine
        THEN Resolution(Pt(mouseEnd.x, endBottom.y + rangePadding \div 3), "bottomMiddle")
        ELSE IF isSameLine
        THEN IF mouseEnd.x - mouseStart.x > 0
             THEN Resolution(below(endBottom), "bottomLeft")
             ELSE Resolution(below(startBottom), "bottomRight")
        ELSE IF mouseEnd.y - mouseStart.y > 0
        THEN Resolution(below(endBottom), "bottomLeft")
        ELSE Resolution(Pt(startTop.x, startTop.y - rangePadding \div 3), "topRight")

\* case SEL_FULL, SEL_DETAILED
deriveSelFull(selectionData, screen) ==
    LET mouseStart == toDip(selectionData.mousePosStart, screen)
        mouseEnd == toDip(selectionData.mousePosEnd, screen)
        isNoMouse == mouseStart = Pt(0, 0) /\ mouseEnd = Pt(0, 0)
        isDoubleClick == mouseStart.x = mouseEnd.x /\ mouseStart.y = mouseEnd.y
        startTop == toDip(selectionData.startTop, screen)
        startBottom == toDip(selectionData.startBottom, screen)
        endTop == toDip(selectionData.endTop, screen)
        endBottom == toDip(selectionData.endBottom, screen)
        isSameLine == startTop.y = endTop.y /\ startBottom.y = endBottom.y
        below(p) == Pt(p.x, p.y + rangePadding \div 3)
    IN  IF isNoMouse THEN Resolution(below(endBottom), "bottomLeft")
        ELSE IF isDoubleClick /\ isSameLine
        THEN Resolution(Pt(mouseEnd.x, endBottom.y + rangePadding \div 3), "bottomMiddle")
        ELSE IF isSameLine
        THEN IF mouseEnd.x - mouseStart.x >= 0
             THEN Resolution(below(endBottom), "bottomLeft")
             ELSE Resolution(below(startBottom), "bottomRight")
        ELSE IF mouseEnd.y - mouseStart.y >= 0
        THEN Resolution(below(endBottom), "bottomLeft")
        ELSE Resolution(Pt(startTop.x, startTop.y - rangePadding \div 3), "topRight")

\* deriveReferencePoint: the switch on posLevel.  referencePoint is assigned on every
\* path, so the final null test never returns { point: null }.
deriveReferencePoint(selectionData, screen) ==
    CASE selectionData.posLevel = PositionLevel.NONE -> deriveAtCursor(screen)
      [] selectionData.posLevel = PositionLevel.MOUSE_SINGLE ->
            deriveMouseSingle(selectionData, screen)
      [] selectionData.posLevel = PositionLevel.MOUSE_DUAL ->
            deriveMouseDual(selectionData, screen)
      [] selectionData.posLevel \in {PositionLevel.SEL_FULL, PositionLevel.SEL_DETAILED} ->
            deriveSelFull(selectionData, screen)
      [] OTHER -> deriveAtCursor(screen)

(***************************************************************************)
(* Overlay Bounds Calculator.                                              *)
(***************************************************************************)
\* setToolbarSize: a raw dimension is [isFinite, halves]; Math.ceil of a positive finite
\* value replaces the stored one.
Dim(halves) == [isFinite |-> TRUE, halves |-> halves]
NotFinite == [isFinite |-> FALSE, halves |-> 0]

StoredDim(current, raw) ==
    IF raw.isFinite /\ raw.halves > 0 THEN (raw.halves + 1) \div 2 ELSE current

\* Mutation: the size is stored only when both dimensions are acceptable.
setToolbarSize_BothOrNone(width, height) ==
    toolbarSize' = IF width.isFinite /\ width.halves > 0 /\ height.isFinite /\ height.halves > 0
                   THEN [width |-> StoredDim(toolbarSize.width, width),
                         height |-> StoredDim(toolbarSize.height, height)]
                   ELSE toolbarSize

setToolbarSize(width, height) ==
    toolbarSize' = [width |-> StoredDim(toolbarSize.width, width),
                    height |-> StoredDim(toolbarSize.height, height)]

clamp(value, min, max) == Max(min, Min(value, max))

\* The effective size: Math.round(this.toolbarSize.width * this.zoomFactor), and height.
EffectiveWidth == MathRound(toolbarSize.width * zoomFactor, 2)
EffectiveHeight == MathRound(toolbarSize.height * zoomFactor, 2)

\* Mutation: every orientation is placed as center.
Placement_AlwaysCenter(point, orientation, width, height) ==
    Pt(2 * point.x - width, 2 * point.y - height)

\* The switch on orientation: the tentative x and y, doubled.
Placement(point, orientation, width, height) ==
    CASE orientation = "topLeft" -> Pt(2 * (point.x - width), 2 * (point.y - height))
      [] orientation = "topRight" -> Pt(2 * point.x, 2 * (point.y - height))
      [] orientation = "topMiddle" -> Pt(2 * point.x - width, 2 * (point.y - height))
      [] orientation = "bottomLeft" -> Pt(2 * (point.x - width), 2 * point.y)
      [] orientation = "bottomRight" -> Pt(2 * point.x, 2 * point.y)
      [] orientation = "bottomMiddle" -> Pt(2 * point.x - width, 2 * point.y)
      [] orientation = "middleLeft" -> Pt(2 * (point.x - width), 2 * point.y - height)
      [] orientation = "middleRight" -> Pt(2 * point.x, 2 * point.y - height)
      [] OTHER -> Pt(2 * point.x - width, 2 * point.y - height)

\* Mutation: the upper clamp limit is the far edge of the work area.
getToolbarBounds_FarEdge(point, orientation, workArea) ==
    LET width == EffectiveWidth
        height == EffectiveHeight
        at == Placement(point, orientation, width, height)
    IN  [x |-> MathRound(clamp(at.x, 2 * workArea.x, 2 * (workArea.x + workArea.width)), 2),
         y |-> MathRound(clamp(at.y, 2 * workArea.y, 2 * (workArea.y + workArea.height)), 2),
         width |-> width, height |-> height]

\* getToolbarBounds, workArea being that of screen.getDisplayNearestPoint(point).
getToolbarBounds(point, orientation, workArea) ==
    LET width == EffectiveWidth
        height == EffectiveHeight
        at == Placement(point, orientation, width, height)
    IN  [x |-> MathRound(clamp(at.x, 2 * workArea.x,
                               2 * (workArea.x + workArea.width - width)), 2),
         y |-> MathRound(clamp(at.y, 2 * workArea.y,
                               2 * (workArea.y + workArea.height - height)), 2),
         width |-> width, height |-> height]

(***************************************************************************)
(* handleTextSelection, up to its call of hideToolbar or showToolbar.      *)
(***************************************************************************)
Ignore == [outcome |-> "ignore"]
Hide == [outcome |-> "hide"]
Show(text, point, orientation) ==
    [outcome |-> "show", text |-> text, point |-> point, orientation |-> orientation]

handleTextSelectionDecision(selectionData, screen) ==
    IF selectionData = NullData THEN Ignore
    ELSE IF ~selectionData.textIsString THEN Ignore
    ELSE LET trimmed == trim(selectionData.text) IN
         IF trimmed = <<>> THEN Hide
         ELSE IF ~shouldProcessSelection(selectionData) THEN Hide
         ELSE LET r == deriveReferencePoint(selectionData, screen)
              IN  IF r.point = NoPoint THEN Hide
                  ELSE Show(trimmed, r.point, r.orientation)

(***************************************************************************)
(* The service as constructed.                                             *)
(***************************************************************************)
NoHook == [exists |-> FALSE]
NoWindow == [exists |-> FALSE]
NotCalled == [done |-> FALSE]
Returned(value) == [done |-> TRUE, value |-> value]

\* constructor: every field but this.available, which the require() of the
\* native module decides.
Constructed ==
    /\ selectionHook = NoHook
    /\ toolbarWindow = NoWindow
    /\ toolbarSize = [width |-> TOOLBAR_DEFAULT_WIDTH, height |-> TOOLBAR_DEFAULT_HEIGHT]
    /\ started = FALSE
    /\ lastSelectionText = <<>>
    /\ hideListenersAttached = FALSE
    /\ lastCtrlKeyDownAt = 0

ConstructedConfig ==
    /\ zoomFactor = 2
    /\ blacklist = {}
    /\ filterMode = "blacklist"
    /\ filterList = <<>>
    /\ triggerMode = TriggerMode.SELECTED

\* The stored fields are those updateConfig(config) leaves.
ConfiguredAs(config) ==
    /\ blacklist = StoredBlacklist(config)
    /\ filterMode = StoredFilterMode(config)
    /\ filterList = StoredFilterList(config)
    /\ triggerMode = StoredTriggerMode(config)
    /\ zoomFactor = StoredZoom(config.zoomFactor)

(***************************************************************************)
(* SpecFilter: shouldProcessSelection on every configuration and program   *)
(* name within the bounds.                                                 *)
(***************************************************************************)
NameChars == {"a", "b", "A"}
ProgramNames == StringsOver(NameChars, MaxNameLen)

\* Entries a configuration file lists: an upper-case name, a two-letter name, the empty name.
RawEntries == {<<"A">>, <<"a", "b">>, <<>>}
RawLists == {Array(l) : l \in UNION {[1..k -> RawEntries] : k \in 0..MaxListLen}} \cup {NotArray}

FilterConfigs ==
    [blacklist : RawLists,
     selectionFilterMode : {Unset, "blacklist", "whitelist", "other"},
     selectionFilterList : RawLists,
     selectionTriggerMode : {Unset, TriggerMode.SELECTED, TriggerMode.CTRL_KEY, TriggerMode.SHORTCUT},
     zoomFactor : {NoZoom}]

FilterEvents ==
    {MouseSingleEvent(<<"h">>, n, Pt(10, 10)) : n \in ProgramNames} \cup {NullData}

InitFilter ==
    /\ available = TRUE
    /\ Constructed
    /\ \E config \in FilterConfigs : ConfiguredAs(config)
    /\ now = 1
    /\ cmds = <<>>
    /\ arg \in [op : {"shouldProcessSelection"}, selectionData : FilterEvents]
    /\ ret = NotCalled

CallShouldProcessSelection ==
    /\ arg.op = "shouldProcessSelection"
    /\ ~ret.done
    /\ ret' = Returned(shouldProcessSelection(arg.selectionData))
    /\ UNCHANGED <<available, selectionHook, toolbarWindow, toolbarSize, started, configVars,
                   lastSelectionText, hideListenersAttached, lastCtrlKeyDownAt, now, cmds, arg>>

NextFilter == CallShouldProcessSelection

SpecFilter == InitFilter /\ [][NextFilter]_vars

FilterCalled == arg.op = "shouldProcessSelection" /\ ret.done /\ arg.selectionData # NullData

\* The event's programName as the filter compares it.
FilterProgram == toLowerCase(arg.selectionData.programName)

SomeEntryIn(name) == \E i \in 1..Len(filterList) : includes(name, filterList[i])

Blacklisted(name) == name # <<>> /\ name \in blacklist

\* C1: in triggerMode 'selected', an event whose lowercased programName is non-empty
\* and in the blacklist is rejected, whatever filterMode and filterList are.
C1_BlacklistRejects ==
    (FilterCalled /\ triggerMode = TriggerMode.SELECTED /\ Blacklisted(FilterProgram))
        => ret.value = FALSE

\* C1 witness: a blacklisted program that a non-empty whitelist matches was rejected.
C1_Witness ==
    /\ FilterCalled /\ triggerMode = TriggerMode.SELECTED /\ Blacklisted(FilterProgram)
    /\ filterMode = "whitelist" /\ Len(filterList) > 0 /\ SomeEntryIn(FilterProgram)
    /\ ret.value = FALSE

\* C2 as claimed: with filterMode whitelist and a non-empty filterList, every event is
\* accepted if and only if some filterList entry is a substring of its programName.
C2_Original ==
    (FilterCalled /\ filterMode = "whitelist" /\ Len(filterList) > 0)
        => (ret.value = SomeEntryIn(FilterProgram))

\* C2 amended: the same, in triggerMode 'selected' and for a programName that is not a
\* non-empty member of the blacklist.
C2_WhitelistRule ==
    (FilterCalled /\ filterMode = "whitelist" /\ Len(filterList) > 0
       /\ triggerMode = TriggerMode.SELECTED /\ ~Blacklisted(FilterProgram))
        => (ret.value = SomeEntryIn(FilterProgram))

\* C2 witness: a whitelist with two entries, of which only the second matches, accepted.
C2_Witness ==
    /\ FilterCalled /\ filterMode = "whitelist" /\ Len(filterList) = 2
    /\ triggerMode = TriggerMode.SELECTED /\ ~Blacklisted(FilterProgram)
    /\ ~includes(FilterProgram, filterList[1]) /\ includes(FilterProgram, filterList[2])
    /\ ret.value = TRUE

\* C3: in triggerMode 'selected', for a programName not in the blacklist: with filterMode
\* blacklist the event is accepted iff no filterList entry is a substring of programName,
\* and with an empty filterList it is accepted in either filterMode.
C3_BlacklistModeRule ==
    (FilterCalled /\ triggerMode = TriggerMode.SELECTED /\ FilterProgram \notin blacklist)
        => /\ filterMode = "blacklist" => (ret.value = ~SomeEntryIn(FilterProgram))
           /\ Len(filterList) = 0 => ret.value = TRUE

\* C3 witness: in blacklist mode an entry that is a proper substring of the name rejected it.
C3_Witness ==
    /\ FilterCalled /\ triggerMode = TriggerMode.SELECTED /\ FilterProgram \notin blacklist
    /\ filterMode = "blacklist" /\ Len(filterList) > 0
    /\ \E i \in 1..Len(filterList) :
          includes(FilterProgram, filterList[i]) /\ filterList[i] # FilterProgram
                                               /\ filterList[i] # <<>>
    /\ ret.value = FALSE

\* C4: when triggerMode is not 'selected', every non-null event is accepted, whatever
\* programName, blacklist, filterMode and filterList are.
C4_OtherModesAccept ==
    (FilterCalled /\ triggerMode # TriggerMode.SELECTED) => ret.value = TRUE

\* C4 witness: in ctrlkey mode a blacklisted program that the blacklist-mode list also
\* matches was accepted.
C4_Witness ==
    /\ FilterCalled /\ triggerMode = TriggerMode.CTRL_KEY /\ Blacklisted(FilterProgram)
    /\ filterMode = "blacklist" /\ Len(filterList) > 0 /\ SomeEntryIn(FilterProgram)
    /\ ret.value = TRUE

(***************************************************************************)
(* SpecResolve: deriveReferencePoint on the geometry of each position      *)
(* level, under several zoom factors and display scales, and               *)
(* handleTextSelection's decision on the documented example.               *)
(***************************************************************************)
Hello == <<"h", "e", "l", "l", "o">>
NotepadExe == <<"n", "o", "t", "e", "p", "a", "d", ".", "e", "x", "e">>

\* DEFAULT_CONFIG of main.js as getSelectionAssistantConfig hands it to updateConfig.
DEFAULT_CONFIG ==
    [blacklist |-> Array(<<<<"e", "x", "c", "e", "l", ".", "e", "x", "e">>,
                         <<"p", "o", "w", "e", "r", "p", "n", "t", ".", "e", "x", "e">>,
                         <<"p", "h", "o", "t", "o", "s", "h", "o", "p", ".", "e", "x", "e">>,
                         <<"a", "c", "a", "d", ".", "e", "x", "e">>,
                         <<"m", "s", "t", "s", "c", ".", "e", "x", "e">>,
                         <<"s", "n", "i", "p", "a", "s", "t", "e", ".", "e", "x", "e">>,
                         <<"i", "l", "l", "u", "s", "t", "r", "a", "t", "o", "r", ".", "e", "x", "e">>>>),
     selectionFilterMode |-> "blacklist",
     selectionFilterList |-> Array(<<>>),
     selectionTriggerMode |-> "selected",
     zoomFactor |-> Zoom(2)]

SelectionEvent(posLevel, mouseStart, mouseEnd, startTop, startBottom, endTop, endBottom) ==
    [text |-> Hello, textIsString |-> TRUE, programName |-> NotepadExe, posLevel |-> posLevel,
     mousePosStart |-> mouseStart, mousePosEnd |-> mouseEnd,
     startTop |-> startTop, startBottom |-> startBottom,
     endTop |-> endTop, endBottom |-> endBottom]

\* Mouse positions: drags of 3, 10, 14, 15 and 50 pixels vertically, 5 and 10 horizontally.
MouseGrid == {Pt(x, y) : x \in {0, 5, 10}, y \in {0, 3, 10, 14, 15, 50}}
SelMousePoints == {Pt(0, 0), Pt(10, 10), Pt(60, 10), Pt(10, 50)}
SelCorners == {Pt(10, 0), Pt(10, 20), Pt(60, 0), Pt(60, 20)}
OrAbsent(S) == S \cup {Absent}

MouseOnlyEvents ==
    {SelectionEvent(PositionLevel.MOUSE_SINGLE, Absent, e, Absent, Absent, Absent, Absent) :
        e \in OrAbsent(MouseGrid)}
    \cup {SelectionEvent(PositionLevel.MOUSE_DUAL, m[1], m[2], Absent, Absent, Absent, Absent) :
        m \in OrAbsent(MouseGrid) \X OrAbsent(MouseGrid)}

SelEvents ==
    {SelectionEvent(l, m[1], m[2], c[1], c[2], c[3], c[4]) :
        l \in {PositionLevel.SEL_FULL, PositionLevel.SEL_DETAILED},
        m \in OrAbsent(SelMousePoints) \X OrAbsent(SelMousePoints),
        c \in OrAbsent(SelCorners) \X OrAbsent(SelCorners)
                \X OrAbsent(SelCorners) \X OrAbsent(SelCorners)}

CursorEvents ==
    {SelectionEvent(l, Absent, Absent, Absent, Absent, Absent, Absent) :
        l \in {PositionLevel.NONE, "UNKNOWN"}}

ScalePercents == {100, 150, 200}

ResolveArgs ==
    [op : {"deriveReferencePoint"}, selectionData : MouseOnlyEvents \cup SelEvents,
     screen : {Screen(Pt(0, 0), sp) : sp \in ScalePercents}]
    \cup [op : {"deriveReferencePoint"}, selectionData : CursorEvents,
          screen : {Screen(c, sp) : c \in MouseGrid, sp \in ScalePercents}]

ResolveConfigs ==
    [blacklist : {Array(<<>>)}, selectionFilterMode : {Unset}, selectionFilterList : {NotArray},
     selectionTriggerMode : {Unset}, zoomFactor : {NoZoom, Zoom(3), Zoom(-2)}]

\* The documented end-to-end example, and variants of it the filter or the trim reject.
ExampleEvent ==
    SelectionEvent(PositionLevel.SEL_FULL, Pt(10, 10), Pt(10, 10),
                   Pt(10, 0), Pt(10, 20), Pt(60, 0), Pt(60, 20))

HandleArgs ==
    [op : {"handleTextSelection"},
     selectionData : {ExampleEvent,
                      [ExampleEvent EXCEPT !.programName = <<"N", "o", "t", "e", "p", "a", "d", ".", "E", "X", "E">>],
                      [ExampleEvent EXCEPT !.text = <<" ">>],
                      [ExampleEvent EXCEPT !.textIsString = FALSE],
                      NullData},
     screen : {Screen(Pt(0, 0), sp) : sp \in ScalePercents}]

HandleConfigs ==
    {DEFAULT_CONFIG,
     [DEFAULT_CONFIG EXCEPT !.blacklist = NotArray],
     [DEFAULT_CONFIG EXCEPT !.zoomFactor = Zoom(4)],
     [DEFAULT_CONFIG EXCEPT !.selectionFilterMode = "whitelist",
                            !.selectionFilterList = Array(<<<<"n", "o", "t", "e">>>>)],
     [DEFAULT_CONFIG EXCEPT !.blacklist = Array(<<NotepadExe>>)]}

InitResolve ==
    /\ available = TRUE
    /\ Constructed
    /\ now = 1
    /\ cmds = <<>>
    /\ ret = NotCalled
    /\ \/ arg \in ResolveArgs /\ \E config \in ResolveConfigs : ConfiguredAs(config)
       \/ arg \in HandleArgs /\ \E config \in HandleConfigs : ConfiguredAs(config)

CallDeriveReferencePoint ==
    /\ arg.op = "deriveReferencePoint"
    /\ ~ret.done
    /\ ret' = Returned(deriveReferencePoint(arg.selectionData, arg.screen))
    /\ UNCHANGED <<available, selectionHook, toolbarWindow, toolbarSize, started, configVars,
                   lastSelectionText, hideListenersAttached, lastCtrlKeyDownAt, now, cmds, arg>>

CallHandleTextSelection ==
    /\ arg.op = "handleTextSelection"
    /\ ~ret.done
    /\ ret' = Returned(handleTextSelectionDecision(arg.selectionData, arg.screen))
    /\ UNCHANGED <<available, selectionHook, toolbarWindow, toolbarSize, started, configVars,
                   lastSelectionText, hideListenersAttached, lastCtrlKeyDownAt, now, cmds, arg>>

NextResolve == CallDeriveReferencePoint \/ CallHandleTextSelection

SpecResolve == InitResolve /\ [][NextResolve]_vars

Resolved(levels) ==
    arg.op = "deriveReferencePoint" /\ ret.done /\ arg.selectionData.posLevel \in levels

\* The converted points the resolver works on.
MouseStart == toDip(arg.selectionData.mousePosStart, arg.screen)
MouseEnd == toDip(arg.selectionData.mousePosEnd, arg.screen)
StartTop == toDip(arg.selectionData.startTop, arg.screen)
StartBottom == toDip(arg.selectionData.startBottom, arg.screen)
EndTop == toDip(arg.selectionData.endTop, arg.screen)
EndBottom == toDip(arg.selectionData.endBottom, arg.screen)
EffectivePadding == (POSITION_PADDING * zoomFactor) \div 2

Carries(fields) == \A f \in fields : arg.selectionData[f] # Absent

\* C8: MOUSE_DUAL, on the converted mouseStart and mouseEnd, dy and dx their differences:
\* |dy| > 14 gives bottomLeft at mouseEnd offset down (dy > 0) or topRight at mouseEnd
\* offset up (dy < 0); |dy| <= 14 gives bottomLeft (dx > 0) or bottomRight (dx <= 0), both
\* at mouseEnd offset down by effectivePadding.
C8_MouseDual ==
    (Resolved({PositionLevel.MOUSE_DUAL}) /\ Carries({"mousePosStart", "mousePosEnd"})) =>
        LET dy == MouseEnd.y - MouseStart.y
            dx == MouseEnd.x - MouseStart.x
            down == Pt(MouseEnd.x, MouseEnd.y + EffectivePadding)
            up == Pt(MouseEnd.x, MouseEnd.y - EffectivePadding)
        IN  /\ (Abs(dy) > 14 /\ dy > 0) => ret.value = Resolution(down, "bottomLeft")
            /\ (Abs(dy) > 14 /\ dy < 0) => ret.value = Resolution(up, "topRight")
            /\ (Abs(dy) <= 14 /\ dx > 0) => ret.value = Resolution(down, "bottomLeft")
            /\ (Abs(dy) <= 14 /\ dx <= 0) => ret.value = Resolution(down, "bottomRight")
            /\ (arg.screen.scalePercent = 100 /\ arg.selectionData.mousePosStart = Pt(0, 0)
                  /\ arg.selectionData.mousePosEnd \in {Pt(0, 50), Pt(5, 3)})
                 => ret.value.orientation = "bottomLeft"

\* C8 witness: a drag of exactly 14 pixels down with no horizontal movement resolved to
\* bottomRight.
C8_Witness ==
    /\ Resolved({PositionLevel.MOUSE_DUAL}) /\ Carries({"mousePosStart", "mousePosEnd"})
    /\ MouseEnd.y - MouseStart.y = 14 /\ MouseEnd.x = MouseStart.x
    /\ ret.value.orientation = "bottomRight"

DoubleClickCase ==
    /\ Resolved({PositionLevel.SEL_FULL, PositionLevel.SEL_DETAILED})
    /\ Carries({"mousePosStart", "mousePosEnd", "startTop", "startBottom", "endTop", "endBottom"})
    /\ MouseStart = MouseEnd
    /\ ~(MouseStart = Pt(0, 0) /\ MouseEnd = Pt(0, 0))
    /\ StartTop.y = EndTop.y /\ StartBottom.y = EndBottom.y

\* C9 as claimed: in the double-click, single-line case the anchor is
\* (mouseEnd.x, mouseEnd.y + effectivePadding/3) and the orientation is bottomMiddle.
C9_Original ==
    DoubleClickCase =>
        ret.value = Resolution(Pt(MouseEnd.x, MouseEnd.y + EffectivePadding \div 3), "bottomMiddle")

\* C9 amended: in the double-click, single-line case the anchor is
\* (mouseEnd.x, endBottom.y + effectivePadding/3) and the orientation is bottomMiddle.
C9_DoubleClick ==
    DoubleClickCase =>
        ret.value = Resolution(Pt(MouseEnd.x, EndBottom.y + EffectivePadding \div 3), "bottomMiddle")

\* C9 witness: a double click whose mouse position is neither at the selection's end
\* nor on its bottom edge.
C9_Witness ==
    /\ DoubleClickCase
    /\ MouseEnd.x # EndBottom.x /\ MouseEnd.y # EndBottom.y
    /\ ret.value.orientation = "bottomMiddle"

SelCase ==
    /\ Resolved({PositionLevel.SEL_FULL, PositionLevel.SEL_DETAILED})
    /\ Carries({"mousePosStart", "mousePosEnd", "startTop", "startBottom", "endTop", "endBottom"})

NoMouseCase == MouseStart = Pt(0, 0) /\ MouseEnd = Pt(0, 0)
SameLine == StartTop.y = EndTop.y /\ StartBottom.y = EndBottom.y
Below(p) == Pt(p.x, p.y + EffectivePadding \div 3)
Above(p) == Pt(p.x, p.y - EffectivePadding \div 3)

\* C11: the remaining SEL_FULL / SEL_DETAILED branches, in order: (1) both mouse points
\* the origin: endBottom offset down by effectivePadding/3, bottomLeft; (2) otherwise
\* single-line and no double click: dx >= 0 gives endBottom offset down, bottomLeft, else
\* startBottom offset down, bottomRight; (3) otherwise multi-line: dy >= 0 gives endBottom
\* offset down, bottomLeft, else startTop offset up, topRight (offsets of
\* effectivePadding/3).
C11_SelBranches ==
    SelCase =>
        LET dx == MouseEnd.x - MouseStart.x
            dy == MouseEnd.y - MouseStart.y
        IN  /\ NoMouseCase => ret.value = Resolution(Below(EndBottom), "bottomLeft")
            /\ (~NoMouseCase /\ SameLine /\ MouseStart # MouseEnd /\ dx >= 0)
                  => ret.value = Resolution(Below(EndBottom), "bottomLeft")
            /\ (~NoMouseCase /\ SameLine /\ MouseStart # MouseEnd /\ dx < 0)
                  => ret.value = Resolution(Below(StartBottom), "bottomRight")
            /\ (~NoMouseCase /\ ~SameLine /\ dy >= 0)
                  => ret.value = Resolution(Below(EndBottom), "bottomLeft")
            /\ (~NoMouseCase /\ ~SameLine /\ dy < 0)
                  => ret.value = Resolution(Above(StartTop), "topRight")

\* C11 witness: a single-line selection dragged straight down (dx = 0, no double click)
\* resolved to bottomLeft below endBottom, where endBottom differs from startBottom.
C11_Witness ==
    /\ SelCase /\ ~NoMouseCase /\ SameLine
    /\ MouseStart # MouseEnd /\ MouseEnd.x = MouseStart.x
    /\ EndBottom # StartBottom
    /\ ret.value = Resolution(Below(EndBottom), "bottomLeft")

\* The points deriveReferencePoint reads for a position level.
RequiredPoints(posLevel) ==
    CASE posLevel = PositionLevel.MOUSE_SINGLE -> {"mousePosEnd"}
      [] posLevel = PositionLevel.MOUSE_DUAL -> {"mousePosStart", "mousePosEnd"}
      [] posLevel \in {PositionLevel.SEL_FULL, PositionLevel.SEL_DETAILED} ->
            {"mousePosStart", "mousePosEnd", "startTop", "startBottom", "endTop", "endBottom"}
      [] OTHER -> {}

Malformed ==
    /\ arg.op = "deriveReferencePoint" /\ ret.done
    /\ ~Carries(RequiredPoints(arg.selectionData.posLevel))

\* C12: for a selection event lacking a point its position level requires, the resolver
\* returns no anchor.
C12_Original == Malformed => ret.value.point = NoPoint

IsDefaultConfig ==
    /\ triggerMode = TriggerMode.SELECTED /\ zoomFactor = 2
    /\ filterMode = "blacklist" /\ filterList = <<>>
    /\ blacklist \in {{}, StoredBlacklist(DEFAULT_CONFIG)}

\* C10: with the default configuration and an unscaled display, the example event
\* (hello, notepad.exe, SEL_FULL, mouse (10,10)->(10,10), corners (10,0) (10,20) (60,0)
\* (60,20)) is accepted and resolves to bottomMiddle at (10, 24).
C10_Example ==
    (arg.op = "handleTextSelection" /\ ret.done /\ arg.selectionData = ExampleEvent
       /\ arg.screen.scalePercent = 100 /\ IsDefaultConfig)
        => ret.value = Show(Hello, Pt(10, 24), "bottomMiddle")

\* C10 witness: the example was handled under DEFAULT_CONFIG on an unscaled display.
C10_Witness ==
    /\ arg.op = "handleTextSelection" /\ ret.done /\ arg.selectionData = ExampleEvent
    /\ arg.screen.scalePercent = 100 /\ IsDefaultConfig
    /\ blacklist = StoredBlacklist(DEFAULT_CONFIG)
    /\ ret.value.outcome = "show"

(***************************************************************************)
(* SpecBounds: getToolbarBounds on anchors inside and outside several work *)
(* areas, for every orientation, several toolbar sizes and zoom factors.   *)
(***************************************************************************)
Orientations == {"topLeft", "topRight", "topMiddle", "bottomLeft", "bottomRight",
                 "bottomMiddle", "middleLeft", "middleRight", "center"}

\* A full-HD primary display, a display to its left, and an 800x600 display, each less
\* its taskbar.
WorkAreas ==
    {PrimaryWorkArea,
     [x |-> -1280, y |-> 0, width |-> 1280, height |-> 984],
     [x |-> 0, y |-> 0, width |-> 800, height |-> 560]}

Anchors == {Pt(x, y) : x \in {-2000, -1280, -640, -5, 0, 10, 795, 1919, 3000},
                       y \in {-50, 0, 24, 555, 1039, 2000}}

\* Reported sizes: none, zero, negative, 45, 30.5 and 400 pixels.
SizeInputs == {NotFinite, Dim(0), Dim(-20), Dim(90), Dim(61), Dim(800)}

\* Zoom factors 0.5, 1, 1.5, 2.5 and -1.
BoundsConfigs ==
    [blacklist : {NotArray}, selectionFilterMode : {Unset}, selectionFilterList : {NotArray},
     selectionTriggerMode : {Unset},
     zoomFactor : {Zoom(1), NoZoom, Zoom(3), Zoom(5), Zoom(-2)}]

InitBounds ==
    /\ available = TRUE
    /\ selectionHook = NoHook
    /\ toolbarWindow = NoWindow
    /\ \E w \in SizeInputs, h \in SizeInputs :
          toolbarSize = [width |-> StoredDim(TOOLBAR_DEFAULT_WIDTH, w),
                         height |-> StoredDim(TOOLBAR_DEFAULT_HEIGHT, h)]
    /\ started = FALSE
    /\ lastSelectionText = <<>>
    /\ hideListenersAttached = FALSE
    /\ lastCtrlKeyDownAt = 0
    /\ \E config \in BoundsConfigs : ConfiguredAs(config)
    /\ now = 1
    /\ cmds = <<>>
    /\ arg \in [op : {"getToolbarBounds"}, point : Anchors,
                 orientation : Orientations \cup {"unknown"}, workArea : WorkAreas]
    /\ ret = NotCalled

CallGetToolbarBounds ==
    /\ arg.op = "getToolbarBounds"
    /\ ~ret.done
    /\ ret' = Returned(getToolbarBounds(arg.point, arg.orientation, arg.workArea))
    /\ UNCHANGED <<available, selectionHook, toolbarWindow, toolbarSize, started, configVars,
                   lastSelectionText, hideListenersAttached, lastCtrlKeyDownAt, now, cmds, arg>>

NextBounds == CallGetToolbarBounds

SpecBounds == InitBounds /\ [][NextBounds]_vars

Contained(bounds, workArea) ==
    /\ workArea.x <= bounds.x
    /\ bounds.x + bounds.width <= workArea.x + workArea.width
    /\ workArea.y <= bounds.y
    /\ bounds.y + bounds.height <= workArea.y + workArea.height

BoundsCalled == arg.op = "getToolbarBounds" /\ ret.done

\* C7 as claimed: for every anchor, orientation, toolbar size, zoom factor and work area
\* the returned rectangle lies within the work area on both axes.
C7_Original == BoundsCalled => Contained(ret.value, arg.workArea)

\* C7 amended: the returned rectangle lies within the work area on both axes whenever
\* its width and height (the toolbar size times the zoom factor, rounded) do not exceed
\* the work area's width and height.
C7_Containment ==
    (BoundsCalled /\ ret.value.width <= arg.workArea.width
                  /\ ret.value.height <= arg.workArea.height)
        => Contained(ret.value, arg.workArea)

\* C7 witness: an anchor outside the work area on both axes, whose placement had to be
\* clamped, gave a rectangle of positive size inside the work area.
C7_Witness ==
    /\ BoundsCalled
    /\ ret.value.width > 0 /\ ret.value.width <= arg.workArea.width
    /\ ret.value.height > 0 /\ ret.value.height <= arg.workArea.height
    /\ arg.point.x > arg.workArea.x + arg.workArea.width
    /\ arg.point.y > arg.workArea.y + arg.workArea.height
    /\ Contained(ret.value, arg.workArea)

(***************************************************************************)
(* The overlay window and the commands sent to it.  A step works on the    *)
(* record [win, last, ctrl, out]: this.toolbarWindow, this.lastSelectionText, *)
(* this.lastCtrlKeyDownAt and the commands issued so far in the step.      *)
(***************************************************************************)
NoBubble == [shown |-> FALSE]

\* new BrowserWindow({ width, height, show: false }) followed by loadURL.  onLoad holds
\* the once('did-finish-load') callbacks, each the arguments of a deferred showToolbar.
NewWindow ==
    [exists |-> TRUE, loading |-> TRUE, visible |-> FALSE,
     bounds |-> [x |-> 0, y |-> 0, width |-> toolbarSize.width, height |-> toolbarSize.height],
     bubble |-> NoBubble, onLoad |-> <<>>]

Overlay == [win |-> toolbarWindow, last |-> lastSelectionText, ctrl |-> lastCtrlKeyDownAt,
            out |-> <<>>]

programOf(selectionData) == selectionData.programName

\* The arguments of one showToolbar call.
ShowRequest(point, orientation, selectionData) ==
    [point |-> point, orientation |-> orientation, selectionData |-> selectionData]

hideToolbar(o) ==
    IF ~o.win.exists THEN o
    ELSE [o EXCEPT !.win.visible = FALSE, !.win.bubble = NoBubble,
                   !.out = Append(@, [cmd |-> "hide"])]

\* Mutation: a window is constructed on every call.
ensureToolbarWindow_Always(o) ==
    [o EXCEPT !.win = NewWindow, !.out = Append(@, [cmd |-> "new BrowserWindow"])]

\* ensureToolbarWindow: the construction of a window is noted in out.
ensureToolbarWindow(o) ==
    IF o.win.exists THEN o
    ELSE [o EXCEPT !.win = NewWindow, !.out = Append(@, [cmd |-> "new BrowserWindow"])]

showToolbar(o, request, screen) ==
    LET e == ensureToolbarWindow(o) IN
    IF e.win.loading
    THEN [e EXCEPT !.win.onLoad = Append(@, request)]
    ELSE LET bounds == getToolbarBounds(request.point, request.orientation, screen.workArea)
             payload == [shown |-> TRUE, text |-> e.last,
                         program |-> programOf(request.selectionData)]
         IN  [e EXCEPT !.win.bounds = bounds, !.win.visible = TRUE, !.win.bubble = payload,
                       !.out = Append(@, [cmd |-> "show", bounds |-> bounds,
                                          text |-> payload.text,
                                          program |-> payload.program])]

\* Mutation: an event that is null or whose text is no string hides the overlay.
handleTextSelection_IgnoreHides(o, selectionData, screen, via) ==
    LET d == handleTextSelectionDecision(selectionData, screen) IN
    CASE d.outcome = "ignore" -> hideToolbar(o)
      [] d.outcome = "hide" -> hideToolbar(o)
      [] d.outcome = "show" ->
            showToolbar([o EXCEPT !.last = d.text,
                                  !.out = Append(@, [cmd |-> "accept", via |-> via,
                                                     point |-> d.point,
                                                     orientation |-> d.orientation,
                                                     text |-> d.text,
                                                     program |-> programOf(selectionData)])],
                        ShowRequest(d.point, d.orientation, selectionData), screen)

\* handleTextSelection.  An accepted selection is noted in out as "accept", with the path
\* (via) that delivered it, before showToolbar is called.
handleTextSelection(o, selectionData, screen, via) ==
    LET d == handleTextSelectionDecision(selectionData, screen) IN
    CASE d.outcome = "ignore" -> o
      [] d.outcome = "hide" -> hideToolbar(o)
      [] d.outcome = "show" ->
            showToolbar([o EXCEPT !.last = d.text,
                                  !.out = Append(@, [cmd |-> "accept", via |-> via,
                                                     point |-> d.point,
                                                     orientation |-> d.orientation,
                                                     text |-> d.text,
                                                     program |-> programOf(selectionData)])],
                        ShowRequest(d.point, d.orientation, selectionData), screen)

handleGlobalMouseWheel(o) == hideToolbar(o)

ModifierKeys == {160, 161, 162, 163, 164, 165}
CtrlKeys == {162, 163}

handleGlobalKeyDown(o, vk) == IF vk \in ModifierKeys THEN o ELSE hideToolbar(o)

\* Mutation: a mouse-down on an edge of the bounds counts as outside.
handleGlobalMouseDown_ExclusiveEdges(o, position, screen) ==
    IF ~o.win.exists THEN o
    ELSE LET bounds == o.win.bounds
             isInside == /\ position.x * 100 > bounds.x * screen.scalePercent
                         /\ position.x * 100 < (bounds.x + bounds.width) * screen.scalePercent
                         /\ position.y * 100 > bounds.y * screen.scalePercent
                         /\ position.y * 100 < (bounds.y + bounds.height) * screen.scalePercent
         IN  IF isInside THEN o ELSE hideToolbar(o)

handleGlobalMouseDown(o, position, screen) ==
    IF ~o.win.exists THEN o
    ELSE LET bounds == o.win.bounds
             \* mouseDip = position * 100 / scalePercent, compared without rounding
             isInside == /\ position.x * 100 >= bounds.x * screen.scalePercent
                         /\ position.x * 100 <= (bounds.x + bounds.width) * screen.scalePercent
                         /\ position.y * 100 >= bounds.y * screen.scalePercent
                         /\ position.y * 100 <= (bounds.y + bounds.height) * screen.scalePercent
         IN  IF isInside THEN o ELSE hideToolbar(o)

\* Mutation: a fired gesture leaves the detector armed.
handleCtrlKeyDown_StaysArmed(o, vk, t, current, screen) ==
    IF vk \notin CtrlKeys
    THEN IF o.ctrl > 0 THEN [o EXCEPT !.ctrl = -1] ELSE o
    ELSE IF o.ctrl = 0 THEN [o EXCEPT !.ctrl = t]
    ELSE IF o.ctrl = -1 THEN o
    ELSE IF t - o.ctrl > DoubleTapGap
    THEN LET polled == [o EXCEPT !.out = Append(@, [cmd |-> "getCurrentSelection"])]
         IN  IF current # NullData
             THEN handleTextSelection(polled, current, screen, "gesture")
             ELSE polled
    ELSE o

\* Mutation: a key-down of another key leaves the detector as it is.
handleCtrlKeyDown_NoCancel(o, vk, t, current, screen) ==
    IF vk \notin CtrlKeys THEN o
    ELSE IF o.ctrl = 0 THEN [o EXCEPT !.ctrl = t]
    ELSE IF o.ctrl = -1 THEN o
    ELSE IF t - o.ctrl > DoubleTapGap
    THEN LET polled == [o EXCEPT !.ctrl = -1,
                                 !.out = Append(@, [cmd |-> "getCurrentSelection"])]
         IN  IF current # NullData
             THEN handleTextSelection(polled, current, screen, "gesture")
             ELSE polled
    ELSE o

\* Mutation: the gesture fires from 350 ms on.
handleCtrlKeyDown_FiresAtGap(o, vk, t, current, screen) ==
    IF vk \notin CtrlKeys
    THEN IF o.ctrl > 0 THEN [o EXCEPT !.ctrl = -1] ELSE o
    ELSE IF o.ctrl = 0 THEN [o EXCEPT !.ctrl = t]
    ELSE IF o.ctrl = -1 THEN o
    ELSE IF t - o.ctrl >= DoubleTapGap
    THEN LET polled == [o EXCEPT !.ctrl = -1,
                                 !.out = Append(@, [cmd |-> "getCurrentSelection"])]
         IN  IF current # NullData
             THEN handleTextSelection(polled, current, screen, "gesture")
             ELSE polled
    ELSE o

\* handleCtrlKeyDown at time t; current is what getCurrentSelection() returns.
handleCtrlKeyDown(o, vk, t, current, screen) ==
    IF vk \notin CtrlKeys
    THEN IF o.ctrl > 0 THEN [o EXCEPT !.ctrl = -1] ELSE o
    ELSE IF o.ctrl = 0 THEN [o EXCEPT !.ctrl = t]
    ELSE IF o.ctrl = -1 THEN o
    ELSE IF t - o.ctrl > DoubleTapGap
    THEN LET polled == [o EXCEPT !.ctrl = -1,
                                 !.out = Append(@, [cmd |-> "getCurrentSelection"])]
         IN  IF current # NullData
             THEN handleTextSelection(polled, current, screen, "gesture")
             ELSE polled
    ELSE o

\* Mutation: a key-up leaves the detector as it is.
handleCtrlKeyUp_Ignored(o, vk) == o

handleCtrlKeyUp(o, vk) == IF vk \in CtrlKeys THEN [o EXCEPT !.ctrl = 0] ELSE o

\* A handler registered n times on an event runs n times for each emission.
RECURSIVE handleTextSelectionTimes(_, _, _, _)
handleTextSelectionTimes(o, selectionData, screen, n) ==
    IF n = 0 THEN o
    ELSE handleTextSelectionTimes(handleTextSelection(o, selectionData, screen, "hook"),
                                  selectionData, screen, n - 1)

RECURSIVE handleCtrlKeyDownTimes(_, _, _, _, _, _)
handleCtrlKeyDownTimes(o, vk, t, current, screen, n) ==
    IF n = 0 THEN o
    ELSE handleCtrlKeyDownTimes(handleCtrlKeyDown(o, vk, t, current, screen),
                                vk, t, current, screen, n - 1)

\* The did-finish-load callbacks, in registration order.
RECURSIVE runDeferred(_, _, _)
runDeferred(o, requests, screen) ==
    IF requests = <<>> THEN o
    ELSE runDeferred(showToolbar(o, Head(requests), screen), Tail(requests), screen)

Commit(o) ==
    /\ toolbarWindow' = o.win
    /\ lastSelectionText' = o.last
    /\ lastCtrlKeyDownAt' = o.ctrl
    /\ cmds' = o.out

PendingShows(o) == IF o.win.exists THEN Len(o.win.onLoad) ELSE 0

(***************************************************************************)
(* The hook object: an event emitter with a native start and stop.         *)
(***************************************************************************)
Handlers == {"handleTextSelection", "handleHookError", "handleGlobalMouseDown",
             "handleGlobalMouseWheel", "handleGlobalKeyDown", "handleCtrlKeyDown",
             "handleCtrlKeyUp"}

HideHandlers == {"handleGlobalMouseDown", "handleGlobalMouseWheel", "handleGlobalKeyDown"}
CtrlHandlers == {"handleCtrlKeyDown", "handleCtrlKeyUp"}

\* new SelectionHookConstructor()
NewHook == [exists |-> TRUE, listeners |-> [h \in Handlers |-> 0], running |-> FALSE]

\* EventEmitter.on adds one registration of each handler; off removes one, if any.
on(hook, handlers) ==
    [hook EXCEPT !.listeners = [h \in Handlers |-> IF h \in handlers THEN @[h] + 1 ELSE @[h]]]

off(hook, handlers) ==
    [hook EXCEPT !.listeners =
        [h \in Handlers |-> IF h \in handlers /\ @[h] > 0 THEN @[h] - 1 ELSE @[h]]]

Registered(hook, h) == IF hook.exists THEN hook.listeners[h] ELSE 0

\* The service fields a lifecycle call works on.
Service == [hook |-> selectionHook, started |-> started, attached |-> hideListenersAttached]

ensureHook(sv) ==
    IF sv.hook.exists \/ ~available THEN sv ELSE [sv EXCEPT !.hook = NewHook]

attachHideListeners(sv) ==
    IF sv.attached \/ ~sv.hook.exists THEN sv
    ELSE [sv EXCEPT !.hook = on(@, HideHandlers), !.attached = TRUE]

detachHideListeners(sv) ==
    IF ~sv.attached \/ ~sv.hook.exists THEN sv
    ELSE [sv EXCEPT !.hook = off(@, HideHandlers), !.attached = FALSE]

attachCtrlKeyListener(sv) ==
    IF ~sv.hook.exists \/ triggerMode # TriggerMode.CTRL_KEY THEN sv
    ELSE [sv EXCEPT !.hook = on(@, CtrlHandlers)]

detachCtrlKeyListener(sv) ==
    IF ~sv.hook.exists THEN sv ELSE [sv EXCEPT !.hook = off(@, CtrlHandlers)]

\* Mutation: start() does not test this.started.
startService_Restarts(sv, hookStarts) ==
    IF ~available THEN [sv |-> sv, result |-> FALSE]
    ELSE LET h == ensureHook(sv) IN
         IF ~h.hook.exists THEN [sv |-> h, result |-> FALSE]
         ELSE LET l == attachCtrlKeyListener(attachHideListeners(
                           [h EXCEPT !.hook = on(@, {"handleTextSelection", "handleHookError"})]))
              IN  IF ~hookStarts THEN [sv |-> l, result |-> FALSE]
                  ELSE [sv |-> [l EXCEPT !.hook.running = TRUE, !.started = TRUE],
                        result |-> TRUE]

\* start(): hookStarts is what selectionHook.start() returns.
startService(sv, hookStarts) ==
    IF ~available \/ sv.started THEN [sv |-> sv, result |-> FALSE]
    ELSE LET h == ensureHook(sv) IN
         IF ~h.hook.exists THEN [sv |-> h, result |-> FALSE]
         ELSE LET l == attachCtrlKeyListener(attachHideListeners(
                           [h EXCEPT !.hook = on(@, {"handleTextSelection", "handleHookError"})]))
              IN  IF ~hookStarts THEN [sv |-> l, result |-> FALSE]
                  ELSE [sv |-> [l EXCEPT !.hook.running = TRUE, !.started = TRUE],
                        result |-> TRUE]

\* stop(): hookStopThrows says whether selectionHook.stop() raises.  The result is the
\* service fields and the overlay.
stopService(sv, o, hookStopThrows) ==
    IF ~sv.hook.exists \/ ~sv.started THEN [sv |-> sv, o |-> o]
    ELSE IF hookStopThrows THEN [sv |-> sv, o |-> o]
    ELSE LET d == detachCtrlKeyListener(detachHideListeners([sv EXCEPT !.hook.running = FALSE]))
         IN  [sv |-> [d EXCEPT !.started = FALSE], o |-> hideToolbar(o)]

\* quit(): stop(), cleanup, then the hook is released.
quitService(sv, o, hookStopThrows) ==
    LET s == stopService(sv, o, hookStopThrows)
    IN  [sv |-> [s.sv EXCEPT !.hook = NoHook, !.started = FALSE], o |-> s.o]

CommitService(sv) ==
    /\ selectionHook' = sv.hook
    /\ started' = sv.started
    /\ hideListenersAttached' = sv.attached

WithinListenerBound(hook) ==
    hook.exists => \A h \in Handlers : hook.listeners[h] <= MaxListeners

(***************************************************************************)
(* Spec: the service driven by its owner (updateConfig, start, stop,       *)
(* quit), by the hook's events and by the overlay window's events.         *)
(***************************************************************************)
\* Configurations: an empty and a one-entry blacklist in trigger mode selected, the
\* one-entry blacklist in trigger mode ctrlkey, and a whitelist naming program b.
ServiceConfigs ==
    {[blacklist |-> b, selectionFilterMode |-> Unset, selectionFilterList |-> NotArray,
      selectionTriggerMode |-> TriggerMode.SELECTED, zoomFactor |-> NoZoom] :
        b \in {Array(<<>>), Array(<< <<"A">> >>)}}
    \cup {[blacklist |-> Array(<< <<"A">> >>), selectionFilterMode |-> Unset,
           selectionFilterList |-> NotArray,
           selectionTriggerMode |-> TriggerMode.CTRL_KEY, zoomFactor |-> NoZoom]}
    \cup {[blacklist |-> Array(<<>>), selectionFilterMode |-> "whitelist",
           selectionFilterList |-> Array(<< <<"B">> >>),
           selectionTriggerMode |-> Unset, zoomFactor |-> NoZoom]}

\* Selections the hook reports: two programs with different texts and positions, a blank
\* text, a text that is no string, and no selection at all.
HookEvents ==
    {MouseSingleEvent(<<"h">>, <<"a">>, Pt(10, 10)),
     MouseSingleEvent(<<" ", "w">>, <<"b">>, Pt(60, 20)),
     MouseSingleEvent(<<" ">>, <<"b">>, Pt(60, 20)),
     [MouseSingleEvent(<<"h">>, <<"a">>, Pt(10, 10)) EXCEPT !.textIsString = FALSE],
     NullData}

Screens == {Screen(Pt(0, 0), 100)}

\* Keys: left control, left shift, the letter A.  Gaps between key events, in ms.
Keys == {162, 160, 65}
Gaps == {0, 350, 400}

\* Mouse-downs: inside and far outside every overlay placement of the model, and on and
\* just past the right and bottom edges of the placement (0, 22, 180, 48), as reported on
\* a display scaled 100 percent and one scaled 150 percent.
MouseDowns ==
    {[position |-> Pt(20, 40), screen |-> Screen(Pt(0, 0), 100)],
     [position |-> Pt(180, 70), screen |-> Screen(Pt(0, 0), 100)],
     [position |-> Pt(181, 70), screen |-> Screen(Pt(0, 0), 100)],
     [position |-> Pt(270, 105), screen |-> Screen(Pt(0, 0), 150)],
     [position |-> Pt(271, 105), screen |-> Screen(Pt(0, 0), 150)],
     [position |-> Pt(900, 700), screen |-> Screen(Pt(0, 0), 100)]}

Init ==
    /\ available \in BOOLEAN
    /\ Constructed
    /\ ConstructedConfig
    /\ now = 1
    /\ cmds = <<>>
    /\ arg = [op |-> "none"]
    /\ ret = NotCalled

Delivering == selectionHook.exists /\ selectionHook.running

UpdateConfig(config) ==
    /\ updateConfig(config)
    /\ cmds' = <<>>
    /\ arg' = [op |-> "updateConfig"]
    /\ ret' = NotCalled
    /\ UNCHANGED <<available, selectionHook, toolbarWindow, toolbarSize, started,
                   lastSelectionText, hideListenersAttached, lastCtrlKeyDownAt, now>>

Start(hookStarts) ==
    LET r == startService(Service, hookStarts) IN
    /\ WithinListenerBound(r.sv.hook)
    /\ CommitService(r.sv)
    /\ arg' = [op |-> "start"]
    /\ ret' = Returned(r.result)
    /\ cmds' = <<>>
    /\ UNCHANGED <<available, toolbarWindow, toolbarSize, configVars, lastSelectionText,
                   lastCtrlKeyDownAt, now>>

Stop(hookStopThrows) ==
    LET r == stopService(Service, Overlay, hookStopThrows) IN
    /\ CommitService(r.sv)
    /\ Commit(r.o)
    /\ arg' = [op |-> "stop"]
    /\ ret' = NotCalled
    /\ UNCHANGED <<available, toolbarSize, configVars, now>>

Quit(hookStopThrows) ==
    LET r == quitService(Service, Overlay, hookStopThrows) IN
    /\ CommitService(r.sv)
    /\ Commit(r.o)
    /\ arg' = [op |-> "quit"]
    /\ ret' = NotCalled
    /\ UNCHANGED <<available, toolbarSize, configVars, now>>

HookTextSelection(selectionData, screen) ==
    /\ Delivering
    /\ LET o == handleTextSelectionTimes(Overlay, selectionData, screen,
                                         Registered(selectionHook, "handleTextSelection"))
       IN  PendingShows(o) <= MaxPending /\ Commit(o)
    /\ arg' = [op |-> "text-selection"]
    /\ ret' = NotCalled
    /\ UNCHANGED <<available, selectionHook, toolbarSize, started, configVars,
                   hideListenersAttached, now>>

HookMouseWheel ==
    /\ Delivering
    /\ Commit(IF Registered(selectionHook, "handleGlobalMouseWheel") > 0
              THEN handleGlobalMouseWheel(Overlay) ELSE Overlay)
    /\ arg' = [op |-> "mouse-wheel"]
    /\ ret' = NotCalled
    /\ UNCHANGED <<available, selectionHook, toolbarSize, started, configVars,
                   hideListenersAttached, now>>

HookMouseDown(position, screen) ==
    /\ Delivering
    /\ Commit(IF Registered(selectionHook, "handleGlobalMouseDown") > 0
              THEN handleGlobalMouseDown(Overlay, position, screen) ELSE Overlay)
    /\ arg' = [op |-> "mouse-down", position |-> position,
               scalePercent |-> screen.scalePercent]
    /\ ret' = NotCalled
    /\ UNCHANGED <<available, selectionHook, toolbarSize, started, configVars,
                   hideListenersAttached, now>>

\* A key-down, gap ms after the previous key event; current is the selection a poll
\* would return, which is read only by a control key-down that comes more than 350 ms
\* after the one that armed the detector.
HookKeyDown(vk, gap, current, screen) ==
    /\ Delivering
    /\ \/ current = NullData
       \/ (vk \in CtrlKeys /\ lastCtrlKeyDownAt > 0
             /\ now + gap - lastCtrlKeyDownAt > DoubleTapGap)
    /\ now + gap <= MaxClock
    /\ now' = now + gap
    /\ LET h == IF Registered(selectionHook, "handleGlobalKeyDown") > 0
                THEN handleGlobalKeyDown(Overlay, vk) ELSE Overlay
           o == handleCtrlKeyDownTimes(h, vk, now + gap, current, screen,
                                       Registered(selectionHook, "handleCtrlKeyDown"))
       IN  PendingShows(o) <= MaxPending /\ Commit(o)
    /\ arg' = [op |-> "key-down", vk |-> vk, before |-> lastCtrlKeyDownAt]
    /\ ret' = NotCalled
    /\ UNCHANGED <<available, selectionHook, toolbarSize, started, configVars,
                   hideListenersAttached>>

HookKeyUp(vk) ==
    /\ Delivering
    /\ Commit(IF Registered(selectionHook, "handleCtrlKeyUp") > 0
              THEN handleCtrlKeyUp(Overlay, vk) ELSE Overlay)
    /\ arg' = [op |-> "key-up", vk |-> vk, before |-> lastCtrlKeyDownAt]
    /\ ret' = NotCalled
    /\ UNCHANGED <<available, selectionHook, toolbarSize, started, configVars,
                   hideListenersAttached, now>>

\* did-finish-load of the overlay window: the deferred shows run.
FinishLoad(screen) ==
    /\ toolbarWindow.exists /\ toolbarWindow.loading
    /\ Commit(runDeferred([Overlay EXCEPT !.win.loading = FALSE, !.win.onLoad = <<>>],
                          toolbarWindow.onLoad, screen))
    /\ arg' = [op |-> "did-finish-load"]
    /\ ret' = NotCalled
    /\ UNCHANGED <<available, selectionHook, toolbarSize, started, configVars,
                   hideListenersAttached, now>>

\* closed: the window is gone, and with it its callbacks.
WindowClosed ==
    /\ toolbarWindow.exists
    /\ toolbarWindow' = NoWindow
    /\ cmds' = <<>>
    /\ arg' = [op |-> "closed"]
    /\ ret' = NotCalled
    /\ UNCHANGED <<available, selectionHook, toolbarSize, started, configVars,
                   lastSelectionText, hideListenersAttached, lastCtrlKeyDownAt, now>>

Next ==
    \/ \E config \in ServiceConfigs : UpdateConfig(config)
    \/ \E hookStarts \in BOOLEAN : Start(hookStarts)
    \/ \E hookStopThrows \in BOOLEAN : Stop(hookStopThrows)
    \/ \E hookStopThrows \in BOOLEAN : Quit(hookStopThrows)
    \/ \E selectionData \in HookEvents, screen \in Screens :
          HookTextSelection(selectionData, screen)
    \/ HookMouseWheel
    \/ \E m \in MouseDowns : HookMouseDown(m.position, m.screen)
    \/ \E vk \in Keys, gap \in Gaps, current \in HookEvents, screen \in Screens :
          HookKeyDown(vk, gap, current, screen)
    \/ \E vk \in Keys : HookKeyUp(vk)
    \/ \E screen \in Screens : FinishLoad(screen)
    \/ WindowClosed

Spec == Init /\ [][Next]_vars

(***************************************************************************)
(* Properties of the running service.  cmds holds what the last step sent  *)
(* to the overlay, in order: "accept" (handleTextSelection took the        *)
(* selection), "show" and "hide".                                          *)
(***************************************************************************)
Issued(kind) == {i \in 1..Len(cmds) : cmds[i].cmd = kind}

\* C5: no show command is issued for a selection whose foreground program is in the
\* configured blacklist, whichever path delivered it and whatever the filter mode,
\* filter list and trigger mode are.
C5_Original ==
    \A i \in Issued("show") : ~Blacklisted(toLowerCase(cmds[i].program))

\* C6: with a trigger mode other than 'selected', a text-selection event delivered by
\* the hook never shows the overlay: no show follows the acceptance of a hook event.
C6_Original ==
    triggerMode # TriggerMode.SELECTED =>
        \A i \in Issued("accept"), j \in Issued("show") :
            ~(cmds[i].via = "hook" /\ i < j)

\* C13: whatever start(), stop() and quit() calls came before, a selection event the hook
\* delivers once is accepted and resolved at most once: the commands of one step hold no
\* two acceptances of a hook event.
C13_Original ==
    Cardinality({i \in Issued("accept") : cmds[i].via = "hook"}) <= 1

(***************************************************************************)
(* The gesture detector.  arg holds the event of the last step and, for a  *)
(* key event, lastCtrlKeyDownAt as the event found it (before).            *)
(***************************************************************************)
KeyDownOf(keys) == arg.op = "key-down" /\ arg.vk \in keys
KeyUpOf(keys) == arg.op = "key-up" /\ arg.vk \in keys
CtrlListening == Registered(selectionHook, "handleCtrlKeyDown") > 0
Polls == Issued("getCurrentSelection")

\* C14: a tracked-modifier key-down that finds the detector armed more than 350 ms ago
\* (no key-up, no other key since the first key-down) fires the gesture exactly once and
\* leaves the detector suppressed; a key-down that finds it suppressed fires nothing and
\* leaves it suppressed.
C14_GestureFire ==
    /\ (KeyDownOf(CtrlKeys) /\ CtrlListening /\ arg.before > 0
          /\ now - arg.before > DoubleTapGap)
         => (Cardinality(Polls) = 1 /\ lastCtrlKeyDownAt = -1)
    /\ (KeyDownOf(Keys) /\ arg.before = -1)
         => (Polls = {} /\ lastCtrlKeyDownAt = -1)

\* C14 witness: the second control key-down, 400 ms after the first, polled the selection
\* once, handed it to handleTextSelection and left the detector suppressed.
C14_Witness ==
    /\ KeyDownOf(CtrlKeys) /\ arg.before > 0 /\ now - arg.before = 400
    /\ Cardinality(Polls) = 1 /\ lastCtrlKeyDownAt = -1
    /\ \E i \in Issued("accept") : cmds[i].via = "gesture"

\* C15: a tracked-modifier key-up returns the detector to idle, and a tracked-modifier
\* key-down that finds it idle does not fire, however long after the previous key-down
\* it comes: it only arms the detector at its own time.
C15_ResetByRelease ==
    /\ (KeyUpOf(CtrlKeys) /\ Registered(selectionHook, "handleCtrlKeyUp") > 0)
         => lastCtrlKeyDownAt = 0
    /\ (KeyDownOf(CtrlKeys) /\ CtrlListening /\ arg.before = 0)
         => (Polls = {} /\ lastCtrlKeyDownAt = now)

\* C15 witness: a control key-up found the detector armed and left it idle.
C15_Witness ==
    KeyUpOf(CtrlKeys) /\ arg.before > 0 /\ lastCtrlKeyDownAt = 0

\* C16: a held modifier never fires the gesture: a tracked-modifier key-down that finds
\* the detector armed (no tracked-modifier key-up since the key-down that armed it) does
\* not poll the selection.
C16_Original ==
    (KeyDownOf(CtrlKeys) /\ arg.before > 0) => Polls = {}

(***************************************************************************)
(* Lifecycle.                                                              *)
(***************************************************************************)
\* C17: start() called when the hook capability is unavailable or the service is already
\* running returns false and leaves started, the hook instance and every listener
\* registration as they were.
C17_StartNoOp ==
    [][(arg'.op = "start" /\ (~available \/ started))
          => (ret' = Returned(FALSE)
                /\ UNCHANGED <<selectionHook, started, hideListenersAttached>>)]_vars

\* C17 witness: start() was called on the running service and returned false.
C17_Witness ==
    /\ arg.op = "start" /\ ret = Returned(FALSE)
    /\ started /\ Registered(selectionHook, "handleTextSelection") = 1

\* C18: stop() on the running service leaves no handler of the service registered on
\* the hook.
C18_Original ==
    [][(arg'.op = "stop" /\ started /\ ~started')
          => \A h \in Handlers : Registered(selectionHook', h) = 0]_vars

OverlayVisible == toolbarWindow.exists /\ toolbarWindow.visible

\* C19: from every reachable state stop() leaves the service stopped with the overlay
\* hidden, also when the hook's stop() raises, and a second stop() right after it
\* changes nothing.
C19_Original ==
    [][/\ arg'.op = "stop" => (~started' /\ ~OverlayVisible')
       /\ (arg.op = "stop" /\ arg'.op = "stop")
            => UNCHANGED <<selectionHook, started, hideListenersAttached, toolbarWindow,
                           lastSelectionText, lastCtrlKeyDownAt>>]_vars

\* C20: while the service is running and the overlay is visible, every mouse-wheel event
\* hides the overlay, every key-down of a key that is no tracked modifier hides it, and a
\* key-down of a tracked modifier (one that fires no gesture) leaves it visible.
C20_Original ==
    [][(started /\ Delivering /\ OverlayVisible) =>
          /\ arg'.op = "mouse-wheel" => ~OverlayVisible'
          /\ (arg'.op = "key-down" /\ arg'.vk \notin ModifierKeys) => ~OverlayVisible'
          /\ (arg'.op = "key-down" /\ arg'.vk \in ModifierKeys /\ Polls' = {})
               => OverlayVisible']_vars

(***************************************************************************)
(* Dismissal by mouse and the overlay window.                              *)
(***************************************************************************)
MouseDownHandled ==
    arg.op = "mouse-down" /\ Registered(selectionHook, "handleGlobalMouseDown") > 0

\* The reported position, divided by the display scale, against a rectangle in
\* device-independent pixels: -1 before the low edge, 0 within (edges included), 1 past
\* the high edge, per axis.
SideOf(value, scalePercent, low, high) ==
    IF value * 100 < low * scalePercent THEN -1
    ELSE IF value * 100 > high * scalePercent THEN 1 ELSE 0

WithinBounds(position, scalePercent, bounds) ==
    /\ SideOf(position.x, scalePercent, bounds.x, bounds.x + bounds.width) = 0
    /\ SideOf(position.y, scalePercent, bounds.y, bounds.y + bounds.height) = 0

LastCommand == IF cmds = <<>> THEN "none" ELSE cmds[Len(cmds)].cmd

\* C22: a hide issued while a show is pending cancels it: when the window finishes
\* loading right after a step that ended with a hide, the overlay is not shown.
C22_Original ==
    [][(LastCommand = "hide" /\ arg'.op = "did-finish-load") => ~OverlayVisible']_vars

\* C23: selections accepted while the window loads are not queued: load completion
\* applies at most one show command (here with handleTextSelection registered once, so
\* that every pending show stems from a selection event of its own).
C23_Original ==
    (arg.op = "did-finish-load" /\ Registered(selectionHook, "handleTextSelection") = 1)
        => Cardinality(Issued("show")) <= 1

\* C24: the service holds at most one live overlay window: a step constructs at most one
\* window, and only when the service holds none (never had one, or the last one was
\* closed); the window it then holds is the new one.
C24_SingletonWindow ==
    [][Issued("new BrowserWindow")' # {} =>
          /\ ~toolbarWindow.exists
          /\ Cardinality(Issued("new BrowserWindow")') = 1
          /\ toolbarWindow'.exists]_vars

\* C24 witness: a second selection was accepted while the window was still loading; no
\* window was constructed for it and its show joined the pending one.
C24_Witness ==
    /\ arg.op = "text-selection" /\ Issued("accept") # {}
    /\ Issued("new BrowserWindow") = {}
    /\ toolbarWindow.exists /\ toolbarWindow.loading /\ Len(toolbarWindow.onLoad) = 2

(***************************************************************************)
(* SpecSize: setToolbarSize on the constructed service or after an earlier *)
(* report, followed by a bounds computation.                               *)
(***************************************************************************)
\* Sizes stored before the call: the defaults, and 31 x 200 from an earlier report.
SizesBefore == {[width |-> TOOLBAR_DEFAULT_WIDTH, height |-> TOOLBAR_DEFAULT_HEIGHT],
                [width |-> 31, height |-> 200]}

SizeArgs ==
    [op : {"setToolbarSize"}, width : SizeInputs, height : SizeInputs,
     point : {Pt(400, 300), Pt(10, 24)}, orientation : {"bottomRight", "center"},
     workArea : {PrimaryWorkArea}]

InitSize ==
    /\ available = TRUE
    /\ selectionHook = NoHook
    /\ toolbarWindow = NoWindow
    /\ toolbarSize \in SizesBefore
    /\ started = FALSE
    /\ lastSelectionText = <<>>
    /\ hideListenersAttached = FALSE
    /\ lastCtrlKeyDownAt = 0
    /\ \E config \in ResolveConfigs : ConfiguredAs(config)
    /\ now = 1
    /\ cmds = <<>>
    /\ arg \in SizeArgs
    /\ ret = NotCalled

CallSetToolbarSize ==
    /\ arg.op = "setToolbarSize"
    /\ ~ret.done
    /\ setToolbarSize(arg.width, arg.height)
    /\ ret' = Returned([phase |-> "stored"])
    /\ UNCHANGED <<available, selectionHook, toolbarWindow, started, configVars,
                   lastSelectionText, hideListenersAttached, lastCtrlKeyDownAt, now, cmds, arg>>

CallGetToolbarBoundsAfter ==
    /\ arg.op = "setToolbarSize"
    /\ ret.done /\ ret.value.phase = "stored"
    /\ ret' = Returned([phase |-> "placed",
                        bounds |-> getToolbarBounds(arg.point, arg.orientation, arg.workArea)])
    /\ UNCHANGED <<available, selectionHook, toolbarWindow, toolbarSize, started, configVars,
                   lastSelectionText, hideListenersAttached, lastCtrlKeyDownAt, now, cmds, arg>>

NextSize == CallSetToolbarSize \/ CallGetToolbarBoundsAfter

SpecSize == InitSize /\ [][NextSize]_vars

\* A reported dimension is acceptable when it is finite and positive.
Acceptable(raw) == raw.isFinite /\ raw.halves > 0

\* stored is the reported dimension (in halves of a pixel) rounded up.
RoundedUp(stored, raw) == 2 * stored >= raw.halves /\ 2 * (stored - 1) < raw.halves

\* C25: setToolbarSize leaves a dimension unchanged when the reported value is zero,
\* negative or not finite and replaces it by the value rounded up otherwise, each
\* dimension on its own; nothing else of the service changes; the next bounds computation
\* uses the stored size.
C25_SetToolbarSize ==
    [][/\ (arg.op = "setToolbarSize" /\ ~ret.done) =>
            /\ IF Acceptable(arg.width) THEN RoundedUp(toolbarSize'.width, arg.width)
                ELSE toolbarSize'.width = toolbarSize.width
            /\ IF Acceptable(arg.height) THEN RoundedUp(toolbarSize'.height, arg.height)
                ELSE toolbarSize'.height = toolbarSize.height
            /\ UNCHANGED <<available, selectionHook, toolbarWindow, started, configVars,
                           lastSelectionText, hideListenersAttached, lastCtrlKeyDownAt>>
       /\ (arg.op = "setToolbarSize" /\ ret'.done /\ ret'.value.phase = "placed") =>
            /\ ret'.value.bounds.width = MathRound(toolbarSize'.width * zoomFactor', 2)
            /\ ret'.value.bounds.height = MathRound(toolbarSize'.height * zoomFactor', 2)]_vars

\* C25 witness: a report of 30.5 pixels of width with a height of zero stored width 31,
\* kept the height, and the bounds computed next used both.
C25_Witness ==
    /\ arg.op = "setToolbarSize" /\ ret.done /\ ret.value.phase = "placed"
    /\ arg.width = Dim(61) /\ arg.height = Dim(0)
    /\ toolbarSize = [width |-> 31, height |-> TOOLBAR_DEFAULT_HEIGHT]
    /\ zoomFactor = 2
    /\ ret.value.bounds.width = 31 /\ ret.value.bounds.height = TOOLBAR_DEFAULT_HEIGHT

(***************************************************************************)
(* SpecClipboard: the IPC handler selection-copy:write-to-clipboard and    *)
(* writeToClipboard, on a service that was never started, is running, was  *)
(* stopped, or failed to start.                                            *)
(***************************************************************************)
\* What a clipboard primitive does: it returns true, returns a falsy value, or throws.
Outcomes == {"true", "falsy", "throws"}

\* Mutation: writeToClipboard does not test this.started.
writeToClipboard_HookOnly(sv, native) ==
    IF ~sv.hook.exists THEN [result |-> FALSE, invoked |-> FALSE]
    ELSE [result |-> (native = "true"), invoked |-> TRUE]

\* writeToClipboard(text): native is what selectionHook.writeToClipboard(text) does.
\* invoked tells whether the primitive was called.
writeToClipboard(sv, native) ==
    IF ~sv.hook.exists \/ ~sv.started THEN [result |-> FALSE, invoked |-> FALSE]
    ELSE [result |-> (native = "true"), invoked |-> TRUE]

\* The IPC handler: text is [isString, length]; fallback is what clipboard.writeText does.
writeToClipboardIpc(text, sv, native, fallback) ==
    IF ~text.isString \/ text.length = 0
    THEN [result |-> FALSE, invoked |-> FALSE, fellBack |-> FALSE]
    ELSE LET w == IF available THEN writeToClipboard(sv, native)
                  ELSE [result |-> FALSE, invoked |-> FALSE]
         IN  IF w.result THEN [result |-> TRUE, invoked |-> w.invoked, fellBack |-> FALSE]
             ELSE [result |-> (fallback # "throws"), invoked |-> w.invoked, fellBack |-> TRUE]

Fresh == [hook |-> NoHook, started |-> FALSE, attached |-> FALSE]

\* The service after the constructor, after start(), after start() and stop(), after a
\* start() whose hook failed to start, and after a stop() whose hook threw.
ClipboardServices ==
    {Fresh,
     startService(Fresh, TRUE).sv,
     stopService(startService(Fresh, TRUE).sv, Overlay, FALSE).sv,
     startService(Fresh, FALSE).sv,
     stopService(startService(Fresh, TRUE).sv, Overlay, TRUE).sv}

ClipboardArgs ==
    [op : {"writeToClipboard", "ipc"},
     text : [isString : BOOLEAN, length : {0, 1, 5}],
     native : Outcomes, fallback : Outcomes]

InitClipboard ==
    /\ available \in BOOLEAN
    /\ toolbarWindow = NoWindow
    /\ toolbarSize = [width |-> TOOLBAR_DEFAULT_WIDTH, height |-> TOOLBAR_DEFAULT_HEIGHT]
    /\ lastSelectionText = <<>>
    /\ lastCtrlKeyDownAt = 0
    /\ \E t \in {Unset, TriggerMode.CTRL_KEY} :
          ConfiguredAs([DEFAULT_CONFIG EXCEPT !.selectionTriggerMode = t])
    /\ \E sv \in ClipboardServices :
          /\ selectionHook = sv.hook
          /\ started = sv.started
          /\ hideListenersAttached = sv.attached
    /\ now = 1
    /\ cmds = <<>>
    /\ arg \in ClipboardArgs
    /\ ret = NotCalled

CallWriteToClipboard ==
    /\ arg.op = "writeToClipboard"
    /\ ~ret.done
    /\ ret' = Returned(writeToClipboard(Service, arg.native))
    /\ UNCHANGED <<available, selectionHook, toolbarWindow, toolbarSize, started, configVars,
                   lastSelectionText, hideListenersAttached, lastCtrlKeyDownAt, now, cmds, arg>>

CallWriteToClipboardIpc ==
    /\ arg.op = "ipc"
    /\ ~ret.done
    /\ ret' = Returned(writeToClipboardIpc(arg.text, Service, arg.native, arg.fallback))
    /\ UNCHANGED <<available, selectionHook, toolbarWindow, toolbarSize, started, configVars,
                   lastSelectionText, hideListenersAttached, lastCtrlKeyDownAt, now, cmds, arg>>

NextClipboard == CallWriteToClipboard \/ CallWriteToClipboardIpc

SpecClipboard == InitClipboard /\ [][NextClipboard]_vars

Running == selectionHook.exists /\ started

ValidText(text) == text.isString /\ text.length > 0

\* C26: writeToClipboard invokes the hook's clipboard primitive exactly when the service
\* is running (hook present and started); not running, or the primitive throwing, gives
\* false.  The IPC handler falls back to the generic clipboard write whenever the service
\* did not report success for a valid text, and returns false only for a non-string or
\* empty text or when the fallback fails too.
C26_Clipboard ==
    ret.done =>
        IF arg.op = "writeToClipboard"
        THEN /\ ret.value.invoked <=> Running
             /\ ~Running => ~ret.value.result
             /\ arg.native = "throws" => ~ret.value.result
             /\ ret.value.result <=> (Running /\ arg.native = "true")
        ELSE /\ ret.value.invoked <=> (ValidText(arg.text) /\ available /\ Running)
             /\ ret.value.fellBack <=>
                    (ValidText(arg.text) /\ ~(available /\ Running /\ arg.native = "true"))
             /\ ~ret.value.result <=>
                    (~ValidText(arg.text) \/ (ret.value.fellBack /\ arg.fallback = "throws"))

\* The primitive threw on a running service and the generic write succeeded.
C26_Witness ==
    /\ ret.done
    /\ arg.op = "ipc"
    /\ available
    /\ Running
    /\ arg.native = "throws"
    /\ ret.value.invoked
    /\ ret.value.fellBack
    /\ ret.value.result

(***************************************************************************)
(* quit().                                                                 *)
(***************************************************************************)
\* C27: after every quit() the service is stopped, the overlay is hidden, the hook is
\* released and no listener bookkeeping of the released hook is left.
C27_Original ==
    [][arg'.op = "quit" =>
          /\ ~started'
          /\ ~selectionHook'.exists
          /\ ~OverlayVisible'
          /\ ~hideListenersAttached']_vars

(***************************************************************************)
(* The text sent to the overlay.                                           *)
(***************************************************************************)
\* The bounds, text and program of a show command all come from one selection event.
FromOneEvent(show) ==
    \E e \in HookEvents \ {NullData}, screen \in Screens :
        LET r == deriveReferencePoint(e, screen) IN
        /\ e.textIsString
        /\ show.text = trim(e.text)
        /\ show.program = programOf(e)
        /\ show.bounds = getToolbarBounds(r.point, r.orientation, screen.workArea)

\* C28: every show command sent to the overlay carries the text and the program of the
\* selection event whose anchor gave its bounds; no show command combines the bounds of
\* one event with the text of another.
C28_Original == \A i \in Issued("show") : FromOneEvent(cmds[i])

(***************************************************************************)
(* Placement by orientation.                                               *)
(***************************************************************************)
\* Orientations that put the box's left edge, right edge, top edge and bottom edge at the
\* anchor; every other tag centres the box on that axis.
LeftAtAnchor == {"bottomRight", "topRight", "middleRight"}
RightAtAnchor == {"bottomLeft", "topLeft", "middleLeft"}
TopAtAnchor == {"bottomRight", "bottomLeft", "bottomMiddle"}
BottomAtAnchor == {"topRight", "topLeft", "topMiddle"}

\* The intended left and top of the box, doubled, for a box of the given extent.
IntendedLeft(orientation, at, extent) ==
    IF orientation \in LeftAtAnchor THEN 2 * at
    ELSE IF orientation \in RightAtAnchor THEN 2 * (at - extent)
    ELSE 2 * at - extent

IntendedTop(orientation, at, extent) ==
    IF orientation \in TopAtAnchor THEN 2 * at
    ELSE IF orientation \in BottomAtAnchor THEN 2 * (at - extent)
    ELSE 2 * at - extent

\* The intended position (doubled) lies between the clamp limits of the work area.
NoClampNeeded(intended, from, extent, size) ==
    2 * from <= intended /\ intended <= 2 * (from + extent - size)

\* C29: when no clamping is needed getToolbarBounds returns the box of the effective size
\* (round(width * zoom), round(height * zoom)) whose corner, edge midpoint or centre given
\* by the orientation is at the anchor; an unrecognised orientation is placed as center.
C29_Placement ==
    BoundsCalled =>
        LET width == MathRound(toolbarSize.width * zoomFactor, 2)
            height == MathRound(toolbarSize.height * zoomFactor, 2)
            left == IntendedLeft(arg.orientation, arg.point.x, width)
            top == IntendedTop(arg.orientation, arg.point.y, height)
        IN  /\ ret.value.width = width
            /\ ret.value.height = height
            /\ (/\ NoClampNeeded(left, arg.workArea.x, arg.workArea.width, width)
                /\ NoClampNeeded(top, arg.workArea.y, arg.workArea.height, height))
                  => /\ ret.value.x = MathRound(left, 2)
                     /\ ret.value.y = MathRound(top, 2)

\* C29 witness: an unrecognised orientation and a box of odd width were placed, centred
\* on the anchor, strictly inside the work area.
C29_Witness ==
    /\ BoundsCalled
    /\ arg.orientation = "unknown"
    /\ ret.value.width % 2 = 1
    /\ ret.value.width > 0 /\ ret.value.height > 0
    /\ ret.value.x > arg.workArea.x
    /\ ret.value.x + ret.value.width < arg.workArea.x + arg.workArea.width
    /\ ret.value.y > arg.workArea.y
    /\ ret.value.y + ret.value.height < arg.workArea.y + arg.workArea.height
    /\ 2 * ret.value.x + ret.value.width = 2 * arg.point.x + 1
    /\ 2 * ret.value.y + ret.value.height = 2 * arg.point.y

(***************************************************************************)
(* Gesture debounce.                                                       *)
(***************************************************************************)
\* C30: a tracked-modifier key-down that finds the detector armed at t, with now - t at
\* most 350 ms (350 included), does nothing: no selection is polled, no command is sent to
\* the overlay, and the detector stays armed at the same t.
C30_Debounce ==
    [][(/\ arg'.op = "key-down"
        /\ arg'.vk \in CtrlKeys
        /\ lastCtrlKeyDownAt > 0
        /\ now' - lastCtrlKeyDownAt <= DoubleTapGap)
          => /\ cmds' = <<>>
             /\ UNCHANGED <<lastCtrlKeyDownAt, toolbarWindow, lastSelectionText,
                            selectionHook, started, hideListenersAttached>>]_vars

\* C30 witness: a control key-down came exactly 350 ms after the one that armed the
\* detector, with the handler registered, and the detector is still armed at that time.
C30_Witness ==
    /\ KeyDownOf(CtrlKeys)
    /\ CtrlListening
    /\ arg.before > 0
    /\ now - arg.before = DoubleTapGap
    /\ lastCtrlKeyDownAt = arg.before
    /\ cmds = <<>>

(***************************************************************************)
(* Gesture cancellation.                                                   *)
(***************************************************************************)
\* C31: a key-down of a key other than the tracked modifier moves an armed detector to
\* suppressed and leaves an idle or suppressed one as it is; a suppressed detector polls no
\* selection and stays suppressed until a tracked-modifier key-up returns it to idle.
C31_Cancellation ==
    [][/\ (arg'.op = "key-down" /\ arg'.vk \notin CtrlKeys /\ CtrlListening)
            => lastCtrlKeyDownAt' = IF lastCtrlKeyDownAt > 0 THEN -1 ELSE lastCtrlKeyDownAt
       /\ lastCtrlKeyDownAt = -1
            => /\ Polls' = {}
               /\ lastCtrlKeyDownAt' \in {-1, 0}
               /\ lastCtrlKeyDownAt' = 0 => (arg'.op = "key-up" /\ arg'.vk \in CtrlKeys)]_vars

\* C31 witness: a key-down of the letter A found the detector armed and left it suppressed.
C31_Witness ==
    /\ KeyDownOf({65})
    /\ CtrlListening
    /\ arg.before > 0
    /\ lastCtrlKeyDownAt = -1

(***************************************************************************)
(* Listener registration and the running state.                            *)
(***************************************************************************)
\* C32: while the service is running, the gesture key-down and key-up handlers are
\* registered exactly when the trigger mode is ctrlkey.
C32_Original ==
    started =>
        ((Registered(selectionHook, "handleCtrlKeyDown") > 0
            /\ Registered(selectionHook, "handleCtrlKeyUp") > 0)
         <=> triggerMode = TriggerMode.CTRL_KEY)

(***************************************************************************)
(* The stored zoom factor.                                                 *)
(***************************************************************************)
\* C33: whatever zoomFactor updateConfig was given, the stored zoom factor is positive and
\* the effective width and height of the overlay are not negative.
C33_Original ==
    BoundsCalled => (zoomFactor > 0 /\ ret.value.width >= 0 /\ ret.value.height >= 0)

(***************************************************************************)
(* Dismissal listeners.                                                    *)
(***************************************************************************)
HideListening == \A h \in HideHandlers : Registered(selectionHook, h) > 0

\* C34: whenever the service is running, the mouse-down, mouse-wheel and key-down
\* dismissal handlers are registered on the hook in use, and hideListenersAttached is true
\* exactly when they are.
C34_Original ==
    started => (HideListening /\ (hideListenersAttached <=> HideListening))

(***************************************************************************)
(* SpecSelection: handleTextSelection on a running service whose overlay   *)
(* window is absent, loading, visible or hidden.                           *)
(***************************************************************************)
\* The overlay after nothing, after one selection event, after the window then finished
\* loading, and after a hide that followed.
OverlayAfter(stage, selectionData, screen) ==
    LET none == [win |-> NoWindow, last |-> <<>>, ctrl |-> 0, out |-> <<>>]
        selected == handleTextSelection(none, selectionData, screen, "hook")
        loaded == IF selected.win.exists
                  THEN runDeferred([selected EXCEPT !.win.loading = FALSE,
                                                    !.win.onLoad = <<>>],
                                   selected.win.onLoad, screen)
                  ELSE selected
    IN  CASE stage = 0 -> none
          [] stage = 1 -> selected
          [] stage = 2 -> loaded
          [] OTHER -> hideToolbar(loaded)

Stages == 0..3

InitSelection ==
    /\ available = TRUE
    /\ toolbarSize = [width |-> TOOLBAR_DEFAULT_WIDTH, height |-> TOOLBAR_DEFAULT_HEIGHT]
    /\ \E config \in ServiceConfigs : ConfiguredAs(config)
    /\ LET sv == startService(Fresh, TRUE).sv IN
          /\ selectionHook = sv.hook
          /\ started = sv.started
          /\ hideListenersAttached = sv.attached
    /\ \E o \in {OverlayAfter(stage, selectionData, screen) :
                      stage \in Stages, selectionData \in HookEvents, screen \in Screens} :
          /\ toolbarWindow = o.win
          /\ lastSelectionText = o.last
          /\ lastCtrlKeyDownAt = o.ctrl
    /\ now = 1
    /\ cmds = <<>>
    /\ arg \in [op : {"text-selection"}, selectionData : HookEvents, screen : Screens]
    /\ ret = NotCalled

\* The hook emits text-selection; ret keeps the overlay as the handler found it.
CallHandleTextSelectionOnOverlay ==
    /\ arg.op = "text-selection"
    /\ ~ret.done
    /\ Commit(handleTextSelection(Overlay, arg.selectionData, arg.screen, "hook"))
    /\ ret' = Returned([win |-> toolbarWindow, last |-> lastSelectionText])
    /\ UNCHANGED <<available, selectionHook, toolbarSize, started, configVars,
                   hideListenersAttached, now, arg>>

NextSelection == CallHandleTextSelectionOnOverlay

SpecSelection == InitSelection /\ [][NextSelection]_vars

SelectionHandled == arg.op = "text-selection" /\ ret.done

NotAnEvent(selectionData) == selectionData = NullData \/ ~selectionData.textIsString

Rejected(selectionData) ==
    /\ ~NotAnEvent(selectionData)
    /\ (trim(selectionData.text) = <<>> \/ ~shouldProcessSelection(selectionData))

\* C35: a selection whose text is empty after trimming, or which the filter rejects, hides
\* the overlay and leaves lastSelectionText as it was; an event that is null or whose text
\* is no string changes nothing and sends no command.
C35_Rejected ==
    SelectionHandled =>
        /\ NotAnEvent(arg.selectionData)
              => /\ cmds = <<>>
                 /\ toolbarWindow = ret.value.win
                 /\ lastSelectionText = ret.value.last
        /\ Rejected(arg.selectionData)
              => /\ lastSelectionText = ret.value.last
                 /\ ~OverlayVisible
                 /\ Issued("show") = {}
                 /\ toolbarWindow.exists = ret.value.win.exists
                 /\ ret.value.win.exists => (Len(cmds) = 1 /\ cmds[1].cmd = "hide")

\* C35 witness: a selection the filter rejects found the overlay visible with the text of
\* an earlier selection and hid it, keeping that text.
C35_Witness ==
    /\ SelectionHandled
    /\ Rejected(arg.selectionData)
    /\ trim(arg.selectionData.text) # <<>>
    /\ ret.value.win.exists /\ ret.value.win.visible
    /\ ~OverlayVisible
    /\ lastSelectionText = ret.value.last
    /\ lastSelectionText # <<>>

(***************************************************************************)
(* The overlay of a stopped service.                                       *)
(***************************************************************************)
\* C36: while the service is stopped (before the first start(), after stop() or quit())
\* the overlay is hidden and no show command is sent to it.
C36_Original == ~started => (~OverlayVisible /\ Issued("show") = {})

(***************************************************************************)
(* The gesture detector across a restart.                                  *)
(***************************************************************************)
\* C37: the gesture needs two tracked-modifier key-downs in the current run: a
\* tracked-modifier key-down that is the first event after a start() that started the
\* service polls no selection.
C37_Original ==
    [][(/\ arg.op = "start"
        /\ ret = Returned(TRUE)
        /\ arg'.op = "key-down"
        /\ arg'.vk \in CtrlKeys) => Polls' = {}]_vars

====
